---- MODULE Spec2Model ----
(***************************************************************************)
(* DiStore: a replicated key-value store.  This module models the          *)
(* node-local engine as state machines translated from the Go sources:     *)
(*                                                                         *)
(*   SpecRepl   replication/replication.go, replication/consistency.go and *)
(*              the hinted-handoff queue: quorum writes, hints, reads      *)
(*   SpecHints  the hinted-handoff queue alone, up to maxAttempts passes   *)
(*   SpecGate   cluster/rebalancer.go ReadOnlyManager and the client       *)
(*              handlers of api/handlers.go                                *)
(*   SpecWAL    storage/wal.go: the write-ahead log and its wrapper        *)
(*                                                                         *)
(* Every specification shares the variables below; a specification leaves  *)
(* the variables of the other subsystems unchanged.                        *)
(*                                                                         *)
(* Strings are the valid UTF-8 strings the JSON request decoder delivers.  *)
(* A peer is modelled by its local store; whether a call to a peer         *)
(* succeeds (connection, timeout, status below 400) is an input of the     *)
(* action that makes the call.                                             *)
(***************************************************************************)
EXTENDS Integers, Sequences, FiniteSets, TLC

VARIABLES
    nodes,                \* Replicator.nodes: the peer list
    quorumConfig,         \* Replicator.quorumConfig
    peerData,             \* peer -> (key -> value): each peer's local store
    hints,                \* HintedHandoff.hints
    hintsFile,            \* <storageDir>/hints.json
    clock,                \* time.Now(), as a logical clock
    attemptsMade,         \* hint timestamp -> number of tryDeliverHint calls
    passes,               \* retry passes run so far (capped by MaxPasses)
    lastWriteTimestamps,  \* ConsistencyManager.lastWriteTimestamps
    clientSessions,       \* ConsistencyManager.clientSessions
    lastSet,              \* key -> the most recent quorum write of it
    ret,                  \* the last operation and what it returned
    romQuorumSize,        \* ReadOnlyManager.quorumSize
    isReadOnly,           \* ReadOnlyManager.isReadOnly
    activeNodes,          \* ReadOnlyManager.activeNodes
    romUpdated,           \* whether UpdateNodeCount has been called
    storage,              \* Handlers.storage: the node's local store
    resp,                 \* the last client request and its HTTP answer
    walFile,              \* <dataDir>/wal.log: the records in file order
    walSequence,          \* WriteAheadLog.sequence
    inner,                \* WALStorage.Storage: the wrapped store
    wpc,                  \* caller -> the WALStorage call it is in
    wret,                 \* caller -> what its last WALStorage call returned
    casStore,             \* CASStorage.Storage: key -> value held below the layer
    versionMap,           \* CASStorage.versionMap (0: no entry)
    casNow,               \* time.Now().UnixNano() as read by the CAS layer
    lpc,                  \* caller -> where it is in AcquireLock
    grants,               \* expiries of the locks granted and not released
    casRet,               \* the last CAS-layer call and what it returned
    ttlData,              \* TTLStorage.ttlData: key -> expiry (0: no entry)
    ttlStore,             \* TTLStorage.Storage: the store below the TTL layer
    ttlNow,               \* time.Now() as read by the TTL layer
    tpc,                  \* caller -> where it is in TTLStorage.Get
    ttlLast,              \* key -> the latest write through the TTL layer
    ttlRet,               \* the last TTL-layer call and what it returned
    compressionType,      \* CompressedStorage.compressionType
    threshold,            \* CompressedStorage.threshold
    compStore,            \* CompressedStorage.Storage: key -> stored bytes
    compLast,             \* key -> the value last set through the layer
    compRet,              \* the last compression-layer call and its result
    bloomBase,            \* OptimizedStorage.Storage: the keys the base store holds
    bitset,               \* BloomFilter.bitset: the indices whose bit is set
    hasher,               \* the bytes last written into the shared hash.Hash64 objects
    bpc,                  \* per caller: position inside OptimizedStorage.Get / Set
    bloomAdded,           \* keys whose Set through the layer has returned
    bloomStartup,         \* keys the base store held when the layer was built
    bloomRet,             \* the last Bloom-layer Get and what it returned
    cacheBase,            \* CacheStorage.Storage: key -> value or absent
    cache,                \* CacheStorage.cache: key -> element id, 0 when absent
    cacheElems,           \* the list elements' entries, by element id
    accessList,           \* CacheStorage.accessList: element ids, front first
    stats,                \* CacheStorage.stats
    cacheNow,             \* the clock the cache layer reads
    cpc,                  \* per caller: position inside CacheStorage.Get / Set / Delete
    cacheDeleted,         \* keys whose Delete has returned with no Set since
    cacheRet,             \* the last cache-layer Get and what it returned
    versions,             \* the versioned values handed to the conflict resolver
    resolved,             \* the last resolutions computed from them
    rbStore,              \* Rebalancer.store: this node's key -> value
    rbPeer,               \* the store behind the other node's /internal/set
    rbPc,                 \* position inside TriggerRebalance
    rbNodes,              \* TriggerRebalance's sorted node list
    rbItems,              \* the items of GetAll not yet visited
    rbMoved,              \* TriggerRebalance's movedCount
    rbHist,               \* what happened since the rebalance started
    rbLast,               \* the last pass of the loop
    rbRet,                \* what the last TriggerRebalance returned
    mkRet,                \* the last two Merkle trees built and their comparison
    atomStore,            \* AtomicStorage.Storage: the value under the counter's key
    atomMu,               \* AtomicStorage.mu: the caller holding it, "" when free
    apc,                  \* per caller: position inside AtomicStorage.Increment
    atomHist,             \* the counter since the last plain write: base, sum of deltas
    atomRet,              \* the last Increment and what it returned
    batStore,             \* BatchStorage.Storage: the value under the key
    batMu,                \* BatchStorage.mu: the caller holding it, "" when free
    batPc,                \* per caller: position inside ExecuteBatch, results so far
    batRet,               \* the last batch that returned
    rdPc,                 \* ReplicateDelete: idle, peers and collector running, done
    rdCfg,                \* the nodes and replicaCount the call copied
    rdRunning,            \* per peer: the outcome its goroutine will report, "none" when over
    rdErrors,             \* the errors channel
    rdLog,                \* log lines the collector wrote
    rdRet,                \* what ReplicateDelete returned
    hStore,               \* h.storage: the value under the key
    hSpawned,             \* replication goroutines started and not yet run
    hCalls,               \* requests for which the replicator was invoked
    hFailed,              \* requests whose local store operation failed
    hResp,                \* the last response of SetHandler / DeleteHandler
    hRepl,                \* the last replication call and the store around it
    fmNodes,              \* FailoverManager.nodes
    nodeStatus,           \* FailoverManager.nodeStatus: per node, present and Online
    fmProbes,             \* per node: probes of the current round still running
    fmRounds,             \* rounds of checkAllNodes started
    fmLast,               \* per node: the outcome of its most recent completed probe
    fmPanic,              \* the process has panicked
    fmOp,                 \* the last membership call and the statuses around it
    cmNow,                \* time.Now() of the consistency manager, in ticks
    cmWrites,             \* ConsistencyManager.lastWriteTimestamps
    cmSessions,           \* ConsistencyManager.clientSessions: time of last activity
    cmLastNode,           \* per key: the node of the most recent RecordWrite
    cmRet,                \* the last EnsureReadYourWrites / CleanupOldSessions
    unArr,                \* the slices UpdateNodes published, by generation
    unGen,                \* the generation r.nodes points to
    unQuorum,             \* Replicator.quorumConfig
    unCopy,               \* UpdateNodes: position inside the call
    unFan,                \* a fan-out loop over r.nodes: slice taken, elements read
    unInstalled,          \* the lists r.nodes was given: at construction and by UpdateNodes
    unRet                 \* the last fan-out and the nodes it addressed

replVars == <<nodes, quorumConfig, peerData, hints, hintsFile,
              clock, attemptsMade, passes, lastWriteTimestamps,
              clientSessions, lastSet, ret>>
gateVars == <<romQuorumSize, isReadOnly, activeNodes, romUpdated, storage, resp>>
walVars  == <<walFile, walSequence, inner, wpc, wret>>
casVars  == <<casStore, versionMap, casNow, lpc, grants, casRet>>
ttlVars  == <<ttlData, ttlStore, ttlNow, tpc, ttlLast, ttlRet>>
compVars == <<compressionType, threshold, compStore, compLast, compRet>>
bloomVars == <<bloomBase, bitset, hasher, bpc, bloomAdded, bloomStartup, bloomRet>>
cacheVars == <<cacheBase, cache, cacheElems, accessList, stats, cacheNow, cpc,
    cacheDeleted, cacheRet>>
vcVars == <<versions, resolved>>
rbVars == <<rbStore, rbPeer, rbPc, rbNodes, rbItems, rbMoved, rbHist, rbLast, rbRet>>
mkVars == <<mkRet>>
atomVars == <<atomStore, atomMu, apc, atomHist, atomRet>>
batVars == <<batStore, batMu, batPc, batRet>>
rdVars == <<rdPc, rdCfg, rdRunning, rdErrors, rdLog, rdRet>>
hVars == <<hStore, hSpawned, hCalls, hFailed, hResp, hRepl>>
fmVars == <<fmNodes, nodeStatus, fmProbes, fmRounds, fmLast, fmPanic, fmOp>>
cmVars == <<cmNow, cmWrites, cmSessions, cmLastNode, cmRet>>
unVars == <<unArr, unGen, unQuorum, unCopy, unFan, unInstalled, unRet>>
layerVars == <<casVars, ttlVars, compVars, bloomVars, cacheVars, vcVars,
    rbVars,
    mkVars,
    atomVars,
    batVars,
    rdVars,
    hVars,
    fmVars,
    cmVars,
    unVars>>
vars     == <<replVars, gateVars, walVars, layerVars>>

(***************************************************************************)
(* Bounds of the model.                                                    *)
(***************************************************************************)
MaxClock   == 2     \* hints stored over a run
MaxPasses  == 1     \* retry passes over a run of SpecRepl
MaxActive  == 3     \* largest active count reported to the gate
MaxWal     == 3     \* records in the WAL file
MaxSeq     == 4     \* largest WAL sequence number handed out
MaxReadHints == 1   \* hints stored over a run of SpecRead
MaxNow     == 3     \* largest reading of the CAS layer's clock
MaxTtlNow  == 3     \* largest reading of the TTL layer's clock
MaxValLen  == 2     \* bytes of a value given to the compression layer
MaxCacheNow == 2    \* largest reading of the cache layer's clock
MaxVc      == 2     \* largest entry of a vector clock
MaxTs      == 3     \* largest timestamp of a versioned value
MaxElems   == 3     \* list elements alive at once in the cache layer
MaxStat    == 2     \* sum of the cache counters beyond which no call starts
MaxInt     == 3     \* largest value of the modelled int64
MaxIncs    == 2     \* calls of Increment in one run
MaxOps     == 2     \* operations in one batch
MaxBatches == 2     \* batches in one run
MaxReqs    == 3     \* client requests in one run
MaxRounds  == 2     \* rounds of health checks in one run
MaxCmNow   == 4     \* ticks of the consistency manager's clock

Peers   == {"n1", "n2", "n3"}
Keys    == {"k1"}
Values  == {"v1", "v2"}
Clients == {"c1"}
\* the peers that direct StoreHint calls name as target
HintPeers == {"n1", "n2"}
NoValue == "<absent>"
NoNode  == ""

EmptyStore == [k \in Keys |-> NoValue]

(***************************************************************************)
(* Sequences helpers.                                                      *)
(***************************************************************************)
Range(s) == {s[i] : i \in 1..Len(s)}

Perms(S) ==
    {f \in [1..Cardinality(S) -> S] : \A i, j \in 1..Cardinality(S) : f[i] = f[j] => i = j}

(***************************************************************************)
(* Hinted handoff (src/unnamed/part_006).                                  *)
(***************************************************************************)
maxAttempts == 10

\* Hint{Key, Value, Node, Timestamp, Attempts}
Hint(key, value, node, ts) ==
    [Key |-> key, Value |-> value, Node |-> node, Timestamp |-> ts, Attempts |-> 0]

\* encoding/json on Hint: the fields under their json tags
MarshalHint(h) ==
    [key |-> h.Key, value |-> h.Value, node |-> h.Node,
     timestamp |-> h.Timestamp, attempts |-> h.Attempts]

UnmarshalHint(j) ==
    [Key |-> j.key, Value |-> j.value, Node |-> j.node,
     Timestamp |-> j.timestamp, Attempts |-> j.attempts]

\* hints.json: absent, the JSON text null, or a JSON array of hint objects
NoHintsFile == [exists |-> FALSE, null |-> FALSE, array |-> <<>>]

\* saveHints: json.Marshal(hh.hints) written over the file.  The queue is a
\* nil slice whenever it is empty (retryHints starts from a nil slice, StoreHint
\* only appends), and json.Marshal of a nil slice is null.
saveHints(hs) ==
    IF Len(hs) = 0
    THEN [exists |-> TRUE, null |-> TRUE, array |-> <<>>]
    ELSE [exists |-> TRUE, null |-> FALSE,
          array |-> [i \in 1..Len(hs) |-> MarshalHint(hs[i])]]

\* loadHints: a missing file leaves hh.hints as it is; null decodes to nil
loadHints(file, cur) ==
    IF ~file.exists THEN cur
    ELSE IF file.null THEN <<>>
    ELSE [i \in 1..Len(file.array) |-> UnmarshalHint(file.array[i])]

\* StoreHint on hh = [hints, file]: append a hint with Attempts 0, then save
StoreHint(hh, key, value, node, ts) ==
    LET hs == Append(hh.hints, Hint(key, value, node, ts))
    IN  [hints |-> hs, file |-> saveHints(hs)]

\* POST <peer>/internal/set: InternalSetHandler stores the pair on the peer
InternalSetHandler(pd, node, key, value) ==
    [pd EXCEPT ![node][key] = value]

\* tryDeliverHint: nil exactly when the peer answered with a status below 400
tryDeliverHint(hint, answered) == answered

\* mutant: the attempts of a hint are not compared with maxAttempts
retryStep_NoLimit(hint, answered, st) ==
    LET h1  == [hint EXCEPT !.Attempts = @ + 1]
        st1 == [st EXCEPT !.made[hint.Timestamp] = @ + 1]
    IN  IF tryDeliverHint(h1, answered)
        THEN [st1 EXCEPT !.peerData =
                   InternalSetHandler(@, h1.Node, h1.Key, h1.Value)]
        ELSE [st1 EXCEPT !.remaining = Append(@, h1)]

\* one iteration of the loop of retryHints over hh.hints[i]
retryStep(hint, answered, st) ==
    IF hint.Attempts >= maxAttempts
    THEN st                                   \* discarded, no delivery attempt
    ELSE LET h1  == [hint EXCEPT !.Attempts = @ + 1]
             st1 == [st EXCEPT !.made[hint.Timestamp] = @ + 1]
         IN  IF tryDeliverHint(h1, answered)
             THEN [st1 EXCEPT !.peerData =
                        InternalSetHandler(@, h1.Node, h1.Key, h1.Value)]
             ELSE [st1 EXCEPT !.remaining = Append(@, h1)]

RECURSIVE retryLoop(_, _, _, _)
retryLoop(hs, ok, i, st) ==
    IF i > Len(hs) THEN st
    ELSE retryLoop(hs, ok, i + 1, retryStep(hs[i], ok[i], st))

\* mutant: the file is written before the pass instead of after it
retryHints_SaveFirst(hh, ok, pd, made) ==
    LET st == retryLoop(hh.hints, ok, 1,
                        [remaining |-> <<>>, peerData |-> pd, made |-> made])
    IN  [hints |-> st.remaining, file |-> saveHints(hh.hints),
         peerData |-> st.peerData, made |-> st.made]

\* retryHints: one pass over the queue, then hh.hints = remainingHints and
\* saveHints().  ok[i] says whether the peer of hint i answers the delivery.
retryHints(hh, ok, pd, made) ==
    LET st == retryLoop(hh.hints, ok, 1,
                        [remaining |-> <<>>, peerData |-> pd, made |-> made])
    IN  [hints |-> st.remaining, file |-> saveHints(st.remaining),
         peerData |-> st.peerData, made |-> st.made]

\* NewHintedHandoff on an existing directory: loadHints into an empty queue
NewHintedHandoff(file) == loadHints(file, <<>>)

(***************************************************************************)
(* Consistency manager (src/replication/consistency.go).                   *)
(* A session is "none" (no entry), "recent" (last activity less than 5     *)
(* seconds ago) or "old".  The WriteTimestamp of a key keeps its NodeID.   *)
(***************************************************************************)
NoWrite == [present |-> FALSE, NodeID |-> NoNode]

RecordWrite(lwt, key, nodeID) ==
    [lwt EXCEPT ![key] = [present |-> TRUE, NodeID |-> nodeID]]

EnsureReadYourWrites(sessions, lwt, clientID, key) ==
    LET hasSession == sessions[clientID] # "none"
        hasWrite   == lwt[key].present
    IN  IF hasSession /\ hasWrite /\ sessions[clientID] = "recent"
        THEN lwt[key].NodeID
        ELSE NoNode

(***************************************************************************)
(* Replicator (src/replication/replication.go).                            *)
(***************************************************************************)
ErrNone           == ""
ErrWriteQuorum    == "write quorum not reached"
ErrReadQuorum     == "read quorum not reached"
ErrQuorumExceeds  == "write quorum exceeds total nodes"
ErrKeyNotFound    == "key not found"
ErrTransport      == "request failed"

NoQuorumConfig == [present |-> FALSE, WriteQuorum |-> 0, ReadQuorum |-> 0, TotalNodes |-> 0]

\* NewReplicator: the quorum configuration exists only for more than one peer
NewReplicator(ns) ==
    IF Len(ns) > 1
    THEN [present |-> TRUE, WriteQuorum |-> (Len(ns) \div 2) + 1,
          ReadQuorum |-> (Len(ns) \div 2) + 1, TotalNodes |-> Len(ns)]
    ELSE NoQuorumConfig

\* NewQuorumReplicator(nodes, writeQuorum, readQuorum)
NewQuorumReplicator(ns, writeQuorum, readQuorum) ==
    [present |-> TRUE, WriteQuorum |-> writeQuorum, ReadQuorum |-> readQuorum,
     TotalNodes |-> Len(ns)]

\* replicateSetToNode: nil exactly when the peer answered with a status
\* below 400 within the timeout; up is the set of peers that do so
replicateSetToNode(node, up) == node \in up

\* mutant: a hint is stored for every peer called, also when it acknowledged
replicateStep_HintAlways(key, value, node, up, st) ==
    LET hh  == StoreHint([hints |-> st.hints, file |-> st.file],
                         key, value, node, st.clock + 1)
        st1 == [st EXCEPT !.hints = hh.hints, !.file = hh.file, !.clock = @ + 1]
    IN  IF ~replicateSetToNode(node, up)
        THEN [st1 EXCEPT !.failedNodes = Append(@, node)]
        ELSE [st1 EXCEPT !.successful = @ + 1,
                         !.acked = @ \cup {node},
                         !.peerData = InternalSetHandler(@, node, key, value),
                         !.lwt = RecordWrite(@, key, node)]

\* one iteration of the loop of replicateSetWithQuorum, on nodes[i]
replicateStep(key, value, node, up, st) ==
    IF ~replicateSetToNode(node, up)
    THEN LET hh == StoreHint([hints |-> st.hints, file |-> st.file],
                             key, value, node, st.clock + 1)
         IN  [st EXCEPT !.failedNodes = Append(@, node),
                        !.hints = hh.hints, !.file = hh.file,
                        !.clock = @ + 1]
    ELSE [st EXCEPT !.successful = @ + 1,
                    !.acked = @ \cup {node},
                    !.peerData = InternalSetHandler(@, node, key, value),
                    !.lwt = RecordWrite(@, key, node)]

RECURSIVE replicateLoop(_, _, _, _, _, _, _)
replicateLoop(ns, qc, key, value, up, i, st) ==
    IF i > Len(ns) THEN st
    ELSE LET st1 == replicateStep(key, value, ns[i], up, st)
         IN  IF st1.successful >= qc.WriteQuorum
             THEN st1                                   \* quorum reached: break
             ELSE replicateLoop(ns, qc, key, value, up, i + 1, st1)

\* replicateSetWithQuorum: the peers are called one after the other
replicateSetWithQuorum(ns, qc, key, value, up, st0) ==
    LET st == replicateLoop(ns, qc, key, value, up, 1, st0)
    IN  [st EXCEPT !.err = IF st.successful < qc.WriteQuorum
                           THEN ErrWriteQuorum ELSE ErrNone]

\* QuorumReplicator.ReplicateSetWithQuorum increments the shared counter
\* `successful` from one goroutine per peer without synchronisation: each
\* increment is a load and a store, so an increment can overwrite another.
\* With n peers acknowledging, the counter ends anywhere in 1..n.
RacyCount(n) == IF n = 0 THEN {0} ELSE 1..n

\* GET <peer>/internal/get/{key}: 200 with the value, 404 when missing
InternalGetHandler(pd, node, key) ==
    IF pd[node][key] = NoValue
    THEN [status |-> 404, value |-> ""]
    ELSE [status |-> 200, value |-> pd[node][key]]

\* readFromNode
readFromNode(pd, key, node, up) ==
    IF node \notin up THEN [err |-> ErrTransport, value |-> ""]
    ELSE LET r == InternalGetHandler(pd, node, key)
         IN  IF r.status = 404 THEN [err |-> ErrKeyNotFound, value |-> ""]
             ELSE [err |-> ErrNone, value |-> r.value]

\* the peers whose goroutine sends on the results channel
Responders(ns, pd, key, up) ==
    {n \in Range(ns) : readFromNode(pd, key, n, up).err = ErrNone}

\* the loop of readWithQuorum over the results channel; order is the order
\* in which the goroutines sent their values
RECURSIVE readLoop(_, _, _, _, _, _)
readLoop(qc, pd, key, order, i, valueCounts) ==
    IF i > Len(order) THEN [err |-> ErrReadQuorum, value |-> ""]
    ELSE LET value  == pd[order[i]][key]
             counts == [valueCounts EXCEPT ![value] = @ + 1]
         IN  IF counts[value] >= qc.ReadQuorum
             THEN [err |-> ErrNone, value |-> value]
             ELSE readLoop(qc, pd, key, order, i + 1, counts)

\* mutant: the first value received is returned without counting
readWithQuorum_FirstValue(qc, pd, key, order) ==
    IF Len(order) = 0 THEN [err |-> ErrReadQuorum, value |-> ""]
    ELSE [err |-> ErrNone, value |-> pd[order[1]][key]]

readWithQuorum(qc, pd, key, order) ==
    readLoop(qc, pd, key, order, 1, [v \in Values |-> 0])

\* GetWithConsistency
GetWithConsistency(qc, pd, key, preferredNode, up, order) ==
    LET pref == IF preferredNode # NoNode
                THEN readFromNode(pd, key, preferredNode, up)
                ELSE [err |-> ErrTransport, value |-> ""]
    IN  IF preferredNode # NoNode /\ pref.err = ErrNone
        THEN [err |-> ErrNone, value |-> pref.value, fromPreferred |-> TRUE]
        ELSE LET q == readWithQuorum(qc, pd, key, order)
             IN  [err |-> q.err, value |-> q.value, fromPreferred |-> FALSE]

\* QuorumReplicator.ReplicateSetWithQuorum on a replicator built with
\* NewQuorumReplicator(nodes, writeQuorum, ...): every peer is called from its
\* own goroutine; successful is the value the racy counter ends with.
QuorumReplicatorSet(qc, ns, pd, key, value, up, successful) ==
    IF qc.WriteQuorum > qc.TotalNodes
    THEN [peerData |-> pd, acked |-> {}, err |-> ErrQuorumExceeds]
    ELSE LET acked == Range(ns) \cap up
         IN  [peerData |-> [n \in DOMAIN pd |->
                              IF n \in acked THEN [pd[n] EXCEPT ![key] = value]
                              ELSE pd[n]],
              acked |-> acked,
              err |-> IF successful < qc.WriteQuorum
                      THEN ErrWriteQuorum ELSE ErrNone]

(***************************************************************************)
(* The replication state machine.                                          *)
(***************************************************************************)
NodeList == <<"n1", "n2", "n3">>

NoRet == [op |-> "none", key |-> "", value |-> "", client |-> "",
          acked |-> {}, failed |-> <<>>, answered |-> {}, preferred |-> NoNode,
          fromPreferred |-> FALSE, quorum |-> 0, err |-> ErrNone]

NoSet == [written |-> FALSE, value |-> "", ok |-> FALSE]

ReplInit ==
    /\ nodes = NodeList
    /\ quorumConfig = NewReplicator(NodeList)
    /\ peerData = [n \in Peers |-> EmptyStore]
    /\ hints = <<>>
    /\ hintsFile = NoHintsFile
    /\ clock = 0
    /\ attemptsMade = [t \in 1..MaxClock |-> 0]
    /\ passes = 0
    /\ lastWriteTimestamps = [k \in Keys |-> NoWrite]
    /\ clientSessions = [c \in Clients |-> "none"]
    /\ lastSet = [k \in Keys |-> NoSet]
    /\ ret = NoRet

\* Replicator.ReplicateSet(key, value) with a quorum configuration
ReplicateSet(key, value, up) ==
    /\ quorumConfig.present
    /\ LET st0 == [successful |-> 0, failedNodes |-> <<>>, acked |-> {},
                   hints |-> hints, file |-> hintsFile, clock |-> clock,
                   peerData |-> peerData, lwt |-> lastWriteTimestamps,
                   err |-> ErrNone]
           st  == replicateSetWithQuorum(nodes, quorumConfig, key, value, up, st0)
       IN  /\ st.clock <= MaxClock
           /\ hints' = st.hints
           /\ hintsFile' = st.file
           /\ clock' = st.clock
           /\ peerData' = st.peerData
           /\ lastWriteTimestamps' = st.lwt
           /\ lastSet' = [lastSet EXCEPT ![key] =
                            [written |-> TRUE, value |-> value, ok |-> st.err = ErrNone]]
           /\ ret' = [NoRet EXCEPT !.op = "set", !.key = key, !.value = value,
                                   !.acked = st.acked, !.failed = st.failedNodes,
                                   !.quorum = quorumConfig.WriteQuorum,
                                   !.err = st.err]
    /\ UNCHANGED <<nodes, quorumConfig, attemptsMade, passes, clientSessions>>
    /\ UNCHANGED <<gateVars, walVars, layerVars>>

\* NewQuorumReplicator(nodes, wq, wq).ReplicateSetWithQuorum(key, value)
QuorumReplicateSet(wq, key, value, up, successful) ==
    /\ LET qc == NewQuorumReplicator(nodes, wq, wq)
           r  == QuorumReplicatorSet(qc, nodes, peerData, key, value, up, successful)
       IN  /\ successful \in (IF qc.WriteQuorum > qc.TotalNodes THEN {0}
                              ELSE RacyCount(Cardinality(Range(nodes) \cap up)))
           /\ peerData' = r.peerData
           /\ lastSet' = [lastSet EXCEPT ![key] =
                            [written |-> TRUE, value |-> value, ok |-> r.err = ErrNone]]
           /\ ret' = [NoRet EXCEPT !.op = "qset", !.key = key, !.value = value,
                                   !.acked = r.acked, !.quorum = wq, !.err = r.err]
    /\ UNCHANGED <<nodes, quorumConfig, hints, hintsFile, clock, attemptsMade,
                   passes, lastWriteTimestamps, clientSessions>>
    /\ UNCHANGED <<gateVars, walVars, layerVars>>

\* the retry worker's tick: HintedHandoff.retryHints()
RetryPass(ok) ==
    /\ LET r == retryHints([hints |-> hints, file |-> hintsFile], ok,
                           peerData, attemptsMade)
       IN  /\ hints' = r.hints
           /\ hintsFile' = r.file
           /\ peerData' = r.peerData
           /\ attemptsMade' = r.made
    /\ ret' = [NoRet EXCEPT !.op = "retry"]
    /\ UNCHANGED <<nodes, quorumConfig, clock, lastWriteTimestamps,
                   clientSessions, lastSet>>
    /\ UNCHANGED <<gateVars, walVars, layerVars>>

\* a retry pass of a run that counts its passes
BoundedRetryPass(ok) ==
    /\ passes < MaxPasses
    /\ passes' = passes + 1
    /\ RetryPass(ok)

\* ConsistencyManager.UpdateClientSession(clientID)
UpdateClientSession(clientID) ==
    /\ clientSessions' = [clientSessions EXCEPT ![clientID] = "recent"]
    /\ ret' = [NoRet EXCEPT !.op = "session", !.client = clientID]
    /\ UNCHANGED <<nodes, quorumConfig, peerData, hints, hintsFile, clock,
                   attemptsMade, passes, lastWriteTimestamps, lastSet>>
    /\ UNCHANGED <<gateVars, walVars, layerVars>>

\* five seconds pass without activity of the client
SessionAges(clientID) ==
    /\ clientSessions[clientID] = "recent"
    /\ clientSessions' = [clientSessions EXCEPT ![clientID] = "old"]
    /\ ret' = [NoRet EXCEPT !.op = "age", !.client = clientID]
    /\ UNCHANGED <<nodes, quorumConfig, peerData, hints, hintsFile, clock,
                   attemptsMade, passes, lastWriteTimestamps, lastSet>>
    /\ UNCHANGED <<gateVars, walVars, layerVars>>

\* Replicator.GetWithConsistency(key, clientID)
Read(key, clientID, up, order) ==
    /\ quorumConfig.present
    /\ LET preferredNode == EnsureReadYourWrites(clientSessions,
                                lastWriteTimestamps, clientID, key)
           r == GetWithConsistency(quorumConfig, peerData, key, preferredNode,
                                   up, order)
       IN  ret' = [NoRet EXCEPT !.op = "get", !.key = key, !.client = clientID,
                                !.answered = Responders(nodes, peerData, key, up),
                                !.preferred = preferredNode,
                                !.fromPreferred = r.fromPreferred,
                                !.quorum = quorumConfig.ReadQuorum,
                                !.value = r.value, !.err = r.err]
    /\ UNCHANGED <<nodes, quorumConfig, peerData, hints, hintsFile, clock,
                   attemptsMade, passes, lastWriteTimestamps, clientSessions,
                   lastSet>>
    /\ UNCHANGED <<gateVars, walVars, layerVars>>

(***************************************************************************)
(* Read-only gate (src/cluster/rebalancer.go) and the client handlers      *)
(* (src/api/handlers.go).                                                  *)
(***************************************************************************)
StatusOK       == 200
StatusCreated  == 201
StatusNotFound == 404

NoResp == [op |-> "none", key |-> "", value |-> "", status |-> 0]

\* the gate of a node started with quorum size 2: NewReadOnlyManager(2)
GateInit ==
    /\ romQuorumSize = 2
    /\ isReadOnly = FALSE
    /\ activeNodes = 0
    /\ romUpdated = FALSE
    /\ storage = EmptyStore
    /\ resp = NoResp

\* NewReadOnlyManager(quorumSize): a new gate replaces the node's gate
NewReadOnlyManager(quorumSize) ==
    /\ romQuorumSize' = quorumSize
    /\ isReadOnly' = FALSE
    /\ activeNodes' = 0
    /\ romUpdated' = FALSE
    /\ UNCHANGED <<storage, resp>>
    /\ UNCHANGED <<replVars, walVars, layerVars>>

\* ReadOnlyManager.IsReadOnly / CanWrite
IsReadOnly == isReadOnly
CanWrite   == ~isReadOnly

\* mutant: read-only also when the active count equals the quorum size
UpdateNodeCount_OffByOne(a) ==
    /\ activeNodes' = a
    /\ isReadOnly' = (a <= romQuorumSize)
    /\ romUpdated' = TRUE
    /\ UNCHANGED <<romQuorumSize, storage, resp>>
    /\ UNCHANGED <<replVars, walVars, layerVars>>

\* ReadOnlyManager.UpdateNodeCount(activeNodes)
UpdateNodeCount(a) ==
    /\ activeNodes' = a
    /\ isReadOnly' = (a < romQuorumSize)
    /\ romUpdated' = TRUE
    /\ UNCHANGED <<romQuorumSize, storage, resp>>
    /\ UNCHANGED <<replVars, walVars, layerVars>>

\* MemoryStorage.Set / Delete / Get
StoreSet(st, key, value) == [st EXCEPT ![key] = value]
StoreDelete(st, key) == [st EXCEPT ![key] = NoValue]
StoreHas(st, key) == st[key] # NoValue

\* Handlers.SetHandler: decode, storage.Set, replicate asynchronously, 201
SetHandler(key, value) ==
    /\ storage' = StoreSet(storage, key, value)
    /\ resp' = [op |-> "set", key |-> key, value |-> value, status |-> StatusCreated]
    /\ UNCHANGED <<romQuorumSize, isReadOnly, activeNodes, romUpdated>>
    /\ UNCHANGED <<replVars, walVars, layerVars>>

\* Handlers.DeleteHandler: storage.Delete, 404 on a missing key, else 200
DeleteHandler(key) ==
    /\ IF StoreHas(storage, key)
       THEN /\ storage' = StoreDelete(storage, key)
            /\ resp' = [op |-> "delete", key |-> key, value |-> "", status |-> StatusOK]
       ELSE /\ storage' = storage
            /\ resp' = [op |-> "delete", key |-> key, value |-> "", status |-> StatusNotFound]
    /\ UNCHANGED <<romQuorumSize, isReadOnly, activeNodes, romUpdated>>
    /\ UNCHANGED <<replVars, walVars, layerVars>>

\* Handlers.GetHandler: storage.Get, 404 on a missing key, else 200
GetHandler(key) ==
    /\ IF StoreHas(storage, key)
       THEN resp' = [op |-> "get", key |-> key, value |-> storage[key], status |-> StatusOK]
       ELSE resp' = [op |-> "get", key |-> key, value |-> "", status |-> StatusNotFound]
    /\ UNCHANGED <<romQuorumSize, isReadOnly, activeNodes, romUpdated, storage>>
    /\ UNCHANGED <<replVars, walVars, layerVars>>

(***************************************************************************)
(* Write-ahead log (src/storage/wal.go).  A WALStorage call is two steps:  *)
(* the append under wal.mu, then the call on the wrapped store; no lock is *)
(* held from the one to the other.  The record's timestamp is left out: no *)
(* code reads it.                                                          *)
(***************************************************************************)
Callers   == {"g1", "g2"}
WalValues == {"", "v1", "v2"}
EmptyWalStore == [k \in Keys |-> NoValue]
Idle == [op |-> "idle", key |-> "", value |-> ""]

\* WALEntry{Operation, Key, Value, Sequence}
WALEntry(op, key, value, seq) ==
    [Operation |-> op, Key |-> key, Value |-> value, Sequence |-> seq]

\* json.Marshal(entry): value carries omitempty
MarshalWALEntry(e) ==
    [op |-> e.Operation, key |-> e.Key, hasValue |-> e.Value # "",
     value |-> e.Value, sequence |-> e.Sequence]

\* decoder.Decode(&entry): an absent field leaves the zero value
UnmarshalWALEntry(j) ==
    [Operation |-> j.op, Key |-> j.key,
     Value |-> IF j.hasValue THEN j.value ELSE "", Sequence |-> j.sequence]

\* writeEntry: the marshalled record and a newline appended to the file
writeEntry(file, entry) == Append(file, MarshalWALEntry(entry))

\* one record replayed by Recover
RecoverStep(st, entry) ==
    IF entry.Operation = "SET" THEN StoreSet(st, entry.Key, entry.Value)
    ELSE IF entry.Operation = "DELETE" THEN StoreDelete(st, entry.Key)
    ELSE st

\* WriteAheadLog.Recover(storage): the records in file order
RECURSIVE RecoverFrom(_, _, _)
RecoverFrom(file, i, st) ==
    IF i > Len(file) THEN st
    ELSE RecoverFrom(file, i + 1, RecoverStep(st, UnmarshalWALEntry(file[i])))

Recover(file, st) == RecoverFrom(file, 1, st)

\* the length in bytes of a record's line, for the keys and values of the
\* model and a UTC timestamp with nanoseconds
WalRecordBytes(j) == IF j.op = "SET" THEN (IF j.hasValue THEN 95 ELSE 82) ELSE 85

RECURSIVE WalFileSize(_)
WalFileSize(file) ==
    IF Len(file) = 0 THEN 0
    ELSE WalRecordBytes(file[1]) + WalFileSize(Tail(file))

\* NewWriteAheadLog: the sequence restarts from the file size
NewWriteAheadLog(file) == WalFileSize(file) \div 100

WalInit ==
    /\ walFile = <<>>
    /\ walSequence = 0
    /\ inner = EmptyWalStore
    /\ wpc = [g \in Callers |-> Idle]
    /\ wret = [g \in Callers |-> ErrNone]

\* mutant: the error of LogSet is ignored and the store is written anyway
WalSetLog_IgnoreError(g, key, value, written) ==
    /\ wpc[g] = Idle
    /\ Len(walFile) < MaxWal
    /\ walSequence < MaxSeq
    /\ walSequence' = walSequence + 1
    /\ walFile' = IF written
                  THEN writeEntry(walFile, WALEntry("SET", key, value, walSequence))
                  ELSE walFile
    /\ wpc' = [wpc EXCEPT ![g] = [op |-> "SET", key |-> key, value |-> value]]
    /\ wret' = wret
    /\ UNCHANGED inner
    /\ UNCHANGED <<replVars, gateVars, layerVars>>

\* WALStorage.Set, first half: wal.LogSet(key, value); written says whether
\* file.Write succeeded
WalSetLog(g, key, value, written) ==
    /\ wpc[g] = Idle
    /\ Len(walFile) < MaxWal
    /\ walSequence < MaxSeq
    /\ walSequence' = walSequence + 1
    /\ IF written
       THEN /\ walFile' = writeEntry(walFile, WALEntry("SET", key, value, walSequence))
            /\ wpc' = [wpc EXCEPT ![g] = [op |-> "SET", key |-> key, value |-> value]]
            /\ wret' = wret
       ELSE /\ walFile' = walFile
            /\ wpc' = wpc
            /\ wret' = [wret EXCEPT ![g] = "write failed"]
    /\ UNCHANGED inner
    /\ UNCHANGED <<replVars, gateVars, layerVars>>

\* WALStorage.Delete, first half: wal.LogDelete(key)
WalDeleteLog(g, key, written) ==
    /\ wpc[g] = Idle
    /\ Len(walFile) < MaxWal
    /\ walSequence < MaxSeq
    /\ walSequence' = walSequence + 1
    /\ IF written
       THEN /\ walFile' = writeEntry(walFile, WALEntry("DELETE", key, "", walSequence))
            /\ wpc' = [wpc EXCEPT ![g] = [op |-> "DELETE", key |-> key, value |-> ""]]
            /\ wret' = wret
       ELSE /\ walFile' = walFile
            /\ wpc' = wpc
            /\ wret' = [wret EXCEPT ![g] = "write failed"]
    /\ UNCHANGED inner
    /\ UNCHANGED <<replVars, gateVars, layerVars>>

\* WALStorage.Set / Delete, second half: ws.Storage.Set / ws.Storage.Delete
WalApply(g) ==
    /\ wpc[g] # Idle
    /\ IF wpc[g].op = "SET"
       THEN /\ inner' = StoreSet(inner, wpc[g].key, wpc[g].value)
            /\ wret' = [wret EXCEPT ![g] = ErrNone]
       ELSE /\ inner' = StoreDelete(inner, wpc[g].key)
            /\ wret' = [wret EXCEPT ![g] =
                          IF StoreHas(inner, wpc[g].key) THEN ErrNone ELSE ErrKeyNotFound]
    /\ wpc' = [wpc EXCEPT ![g] = Idle]
    /\ UNCHANGED <<walFile, walSequence>>
    /\ UNCHANGED <<replVars, gateVars, layerVars>>

\* the process restarts with no call in flight: NewWALStorage over a fresh
\* base store, then wal.Recover(base)
WalRestart ==
    /\ \A g \in Callers : wpc[g] = Idle
    /\ Len(walFile) > 0
    /\ inner' = Recover(walFile, EmptyWalStore)
    /\ walSequence' = NewWriteAheadLog(walFile)
    /\ wret' = [g \in Callers |-> ErrNone]
    /\ UNCHANGED <<walFile, wpc>>
    /\ UNCHANGED <<replVars, gateVars, layerVars>>

(***************************************************************************)
(* CAS and lock layer (src/storage/cas.go).  A value of the wrapped store  *)
(* is a record: a plain string, or the string "locked:<expiry>" that       *)
(* AcquireLock writes, kept with its number so that Sscanf can be modelled.*)
(***************************************************************************)
CasKey    == "c"
LockKey   == "L"
CasKeys   == {CasKey, LockKey}
CasValues == {"", "v0", "v1"}
LockTtls  == {1, 2}

CasAbsent == [kind |-> "absent", s |-> "", expiry |-> 0]
Str(v) == [kind |-> "str", s |-> v, expiry |-> 0]

\* fmt.Sprintf("locked:%d", expiry)
LockValue(expiry) == [kind |-> "lock", s |-> "", expiry |-> expiry]

\* fmt.Sscanf(currentValue, "locked:%d", &existingExpiry): 0 when the value
\* is not of that form
ParseExpiry(v) == IF v.kind = "lock" THEN v.expiry ELSE 0

\* s.Storage.Get(key) of the wrapped store: ("", ErrKeyNotFound) when absent
CasGet(st, key) ==
    IF st[key].kind = "absent" THEN [value |-> Str(""), err |-> ErrKeyNotFound]
    ELSE [value |-> st[key], err |-> ErrNone]

NoCASResult == [Success |-> FALSE, Version |-> 0, CurrentValue |-> Str("")]

\* CASStorage.CompareAndSet under s.mu; now is time.Now().UnixNano() and
\* setOk says whether the wrapped store's Set returned nil
CompareAndSet(st, vm, key, expectedValue, newValue, expectedVersion, now, setOk) ==
    LET got            == CasGet(st, key)
        currentValue   == got.value
        currentVersion == vm[key]
        refused(cv)    == [store |-> st, versionMap |-> vm, err |-> ErrNone,
                           result |-> [Success |-> FALSE, Version |-> currentVersion,
                                       CurrentValue |-> cv]]
        written        == IF setOk
                          THEN [store |-> [st EXCEPT ![key] = newValue],
                                versionMap |-> [vm EXCEPT ![key] = now],
                                err |-> ErrNone,
                                result |-> [Success |-> TRUE, Version |-> now,
                                            CurrentValue |-> Str("")]]
                          ELSE [store |-> st,
                                versionMap |-> [vm EXCEPT ![key] = now],
                                err |-> "set failed", result |-> NoCASResult]
    IN  IF got.err = ErrKeyNotFound
        THEN IF expectedValue # Str("") THEN refused(Str("")) ELSE written
        ELSE IF currentValue # expectedValue THEN refused(currentValue)
        ELSE IF expectedVersion # 0 /\ currentVersion # expectedVersion
             THEN refused(currentValue)
        ELSE written

NoCasRet == [op |-> "none", caller |-> "", key |-> "", expected |-> "",
             new |-> "", expectedVersion |-> 0, before |-> CasAbsent,
             beforeVersion |-> 0, Success |-> FALSE, Version |-> 0,
             CurrentValue |-> Str(""), read |-> CasAbsent, err |-> ErrNone]
LockIdle == [pc |-> "idle", lockValue |-> CasAbsent, currentValue |-> CasAbsent]

CasInit ==
    /\ casStore = [k \in CasKeys |-> CasAbsent]
    /\ versionMap = [k \in CasKeys |-> 0]
    /\ casNow = 1
    /\ lpc = [g \in Callers |-> LockIdle]
    /\ grants = {}
    /\ casRet = NoCasRet

casRest == <<replVars, gateVars, walVars, ttlVars, compVars, bloomVars, cacheVars, vcVars,
    rbVars,
    mkVars,
    atomVars,
    batVars,
    rdVars,
    hVars,
    fmVars,
    cmVars,
    unVars>>

\* the clock of the CAS layer advances
CasTick ==
    /\ casNow < MaxNow
    /\ casNow' = casNow + 1
    /\ UNCHANGED <<casStore, versionMap, lpc, grants, casRet>>
    /\ UNCHANGED casRest

\* CASStorage.Set(key, value)
CasSet(key, value) ==
    /\ versionMap' = [versionMap EXCEPT ![key] = casNow]
    /\ casStore' = [casStore EXCEPT ![key] = Str(value)]
    /\ casRet' = [NoCasRet EXCEPT !.op = "set", !.key = key]
    /\ UNCHANGED <<casNow, lpc, grants>>
    /\ UNCHANGED casRest

\* CASStorage.Delete(key)
CasDelete(key) ==
    /\ versionMap' = [versionMap EXCEPT ![key] = 0]
    /\ casStore' = [casStore EXCEPT ![key] = CasAbsent]
    /\ casRet' = [NoCasRet EXCEPT !.op = "delete", !.key = key,
                     !.err = CasGet(casStore, key).err]
    /\ UNCHANGED <<casNow, lpc, grants>>
    /\ UNCHANGED casRest

\* a client's CompareAndSet(key, expected, new, expectedVersion)
CasCompareAndSet(key, expected, new, expectedVersion, setOk) ==
    /\ LET r == CompareAndSet(casStore, versionMap, key, Str(expected), Str(new),
                              expectedVersion, casNow, setOk)
       IN  /\ casStore' = r.store
           /\ versionMap' = r.versionMap
           /\ casRet' = [NoCasRet EXCEPT !.op = "cas", !.key = key,
                            !.expected = expected, !.new = new,
                            !.expectedVersion = expectedVersion,
                            !.before = casStore[key],
                            !.beforeVersion = versionMap[key],
                            !.Success = r.result.Success,
                            !.Version = r.result.Version,
                            !.CurrentValue = r.result.CurrentValue,
                            !.err = r.err]
    /\ UNCHANGED <<casNow, lpc, grants>>
    /\ UNCHANGED casRest

\* AcquireLock, first step: the lock value is computed and
\* CompareAndSet(lockKey, "", lockValue, 0) is tried
AcqStart(g, timeout) ==
    /\ lpc[g].pc = "idle"
    /\ LET lockValue == LockValue(casNow + timeout)
           r == CompareAndSet(casStore, versionMap, LockKey, Str(""), lockValue,
                              0, casNow, TRUE)
       IN  /\ casStore' = r.store
           /\ versionMap' = r.versionMap
           /\ IF r.result.Success
              THEN /\ lpc' = lpc
                   /\ grants' = grants \cup {lockValue.expiry}
                   /\ casRet' = [NoCasRet EXCEPT !.op = "acquire", !.caller = g,
                                    !.key = LockKey, !.Success = TRUE]
              ELSE /\ lpc' = [lpc EXCEPT ![g] = [pc |-> "get", lockValue |-> lockValue,
                                                 currentValue |-> CasAbsent]]
                   /\ grants' = grants
                   /\ casRet' = [NoCasRet EXCEPT !.op = "acquiring", !.caller = g,
                                    !.key = LockKey]
    /\ UNCHANGED casNow
    /\ UNCHANGED casRest

\* AcquireLock, second step: s.Storage.Get(lockKey), outside s.mu
AcqGet(g) ==
    /\ lpc[g].pc = "get"
    /\ LET got == CasGet(casStore, LockKey)
       IN  IF got.err # ErrNone
           THEN /\ lpc' = [lpc EXCEPT ![g] = LockIdle]
                /\ casRet' = [NoCasRet EXCEPT !.op = "acquire", !.caller = g,
                                 !.key = LockKey, !.err = got.err]
           ELSE /\ lpc' = [lpc EXCEPT ![g].pc = "reclaim",
                                      ![g].currentValue = got.value]
                /\ casRet' = [NoCasRet EXCEPT !.op = "acquiring", !.caller = g,
                                 !.key = LockKey, !.read = got.value]
    /\ UNCHANGED <<casStore, versionMap, casNow, grants>>
    /\ UNCHANGED casRest

\* AcquireLock, third step: the expiry read is compared with the clock and an
\* expired lock is taken with CompareAndSet(lockKey, currentValue, lockValue, 0)
AcqReclaim(g) ==
    /\ lpc[g].pc = "reclaim"
    /\ LET cur == lpc[g].currentValue
           r   == CompareAndSet(casStore, versionMap, LockKey, cur,
                                lpc[g].lockValue, 0, casNow, TRUE)
       IN  IF casNow > ParseExpiry(cur)
           THEN /\ casStore' = r.store
                /\ versionMap' = r.versionMap
                /\ grants' = IF r.result.Success
                             THEN grants \cup {lpc[g].lockValue.expiry}
                             ELSE grants
                /\ casRet' = [NoCasRet EXCEPT !.op = "acquire", !.caller = g,
                                 !.key = LockKey, !.read = cur,
                                 !.Success = r.result.Success]
           ELSE /\ UNCHANGED <<casStore, versionMap, grants>>
                /\ casRet' = [NoCasRet EXCEPT !.op = "acquire", !.caller = g,
                                 !.key = LockKey, !.read = cur]
    /\ lpc' = [lpc EXCEPT ![g] = LockIdle]
    /\ UNCHANGED casNow
    /\ UNCHANGED casRest

\* CASStorage.ReleaseLock(lockKey): CompareAndSet(lockKey, "", "", 0).  When
\* it returns nil the caller takes the lock for released.
ReleaseLock(g) ==
    /\ lpc[g].pc = "idle"
    /\ LET r == CompareAndSet(casStore, versionMap, LockKey, Str(""), Str(""),
                              0, casNow, TRUE)
       IN  /\ casStore' = r.store
           /\ versionMap' = r.versionMap
           /\ grants' = IF r.err = ErrNone THEN {} ELSE grants
           /\ casRet' = [NoCasRet EXCEPT !.op = "release", !.caller = g,
                            !.key = LockKey, !.before = casStore[LockKey],
                            !.err = r.err]
    /\ UNCHANGED <<casNow, lpc>>
    /\ UNCHANGED casRest

(***************************************************************************)
(* TTL layer (src/storage/ttl.go).  Get reads the expiry under the read    *)
(* lock, releases it, and takes the write lock to delete an expired key    *)
(* without reading the expiry again.                                       *)
(***************************************************************************)
TtlKeys   == {"t"}
TtlDurations == {0, 1, 2}
NoTtlWrite == [written |-> FALSE, value |-> "", expiry |-> 0]
NoTtlRet == [op |-> "none", key |-> "", value |-> "", err |-> ErrNone,
             at |-> 0, concurrent |-> FALSE]
TtlIdle == [pc |-> "idle", key |-> "", concurrent |-> FALSE]

\* time.Now().After(expiry)
After(now, expiry) == now > expiry

TtlInit ==
    /\ ttlData = [k \in TtlKeys |-> 0]
    /\ ttlStore = [k \in TtlKeys |-> NoValue]
    /\ ttlNow = 1
    /\ tpc = [g \in Callers |-> TtlIdle]
    /\ ttlLast = [k \in TtlKeys |-> NoTtlWrite]
    /\ ttlRet = NoTtlRet

ttlRest == <<replVars, gateVars, walVars, casVars, compVars, bloomVars, cacheVars, vcVars,
    rbVars,
    mkVars,
    atomVars,
    batVars,
    rdVars,
    hVars,
    fmVars,
    cmVars,
    unVars>>

\* the clock of the TTL layer advances
TtlTick ==
    /\ ttlNow < MaxTtlNow
    /\ ttlNow' = ttlNow + 1
    /\ UNCHANGED <<ttlData, ttlStore, tpc, ttlLast, ttlRet>>
    /\ UNCHANGED ttlRest

\* TTLStorage.SetWithTTL(key, value, ttl); Set(key, value) is the call with
\* ttl = 0.  A Get that is between its two steps is now concurrent with a write.
SetWithTTL(key, value, ttl) ==
    /\ ttlStore' = [ttlStore EXCEPT ![key] = value]
    /\ ttlData' = [ttlData EXCEPT ![key] = IF ttl > 0 THEN ttlNow + ttl ELSE 0]
    /\ ttlLast' = [ttlLast EXCEPT ![key] =
                     [written |-> TRUE, value |-> value,
                      expiry |-> IF ttl > 0 THEN ttlNow + ttl ELSE 0]]
    /\ tpc' = [g \in Callers |->
                 IF tpc[g].pc # "idle" /\ tpc[g].key = key
                 THEN [tpc[g] EXCEPT !.concurrent = TRUE] ELSE tpc[g]]
    /\ ttlRet' = [NoTtlRet EXCEPT !.op = "set", !.key = key, !.value = value,
                     !.at = ttlNow]
    /\ UNCHANGED ttlNow
    /\ UNCHANGED ttlRest

\* TTLStorage.Get, first step: the expiry is read under the read lock and
\* compared with the clock; an unexpired key is read from the wrapped store
TtlGetStart(g, key) ==
    /\ tpc[g].pc = "idle"
    /\ LET expiry == ttlData[key]
           hasTTL == expiry # 0
       IN  IF hasTTL /\ After(ttlNow, expiry)
           THEN /\ tpc' = [tpc EXCEPT ![g] = [pc |-> "delete", key |-> key,
                                              concurrent |-> FALSE]]
                /\ ttlRet' = [NoTtlRet EXCEPT !.op = "getting", !.key = key,
                                 !.at = ttlNow]
           ELSE /\ tpc' = tpc
                /\ ttlRet' = [NoTtlRet EXCEPT !.op = "get", !.key = key,
                                 !.at = ttlNow,
                                 !.value = IF StoreHas(ttlStore, key)
                                           THEN ttlStore[key] ELSE "",
                                 !.err = IF StoreHas(ttlStore, key)
                                         THEN ErrNone ELSE ErrKeyNotFound]
    /\ UNCHANGED <<ttlData, ttlStore, ttlNow, ttlLast>>
    /\ UNCHANGED ttlRest

\* TTLStorage.Get, second step: under the write lock the index entry and the
\* key are deleted and ErrKeyNotFound is returned
TtlGetDelete(g) ==
    /\ tpc[g].pc = "delete"
    /\ ttlData' = [ttlData EXCEPT ![tpc[g].key] = 0]
    /\ ttlStore' = StoreDelete(ttlStore, tpc[g].key)
    /\ tpc' = [tpc EXCEPT ![g] = TtlIdle]
    /\ ttlRet' = [NoTtlRet EXCEPT !.op = "get", !.key = tpc[g].key,
                     !.at = ttlNow, !.err = ErrKeyNotFound,
                     !.concurrent = tpc[g].concurrent]
    /\ UNCHANGED <<ttlNow, ttlLast>>
    /\ UNCHANGED ttlRest

\* TTLStorage.Delete(key)
TtlDelete(key) ==
    /\ ttlData' = [ttlData EXCEPT ![key] = 0]
    /\ ttlStore' = StoreDelete(ttlStore, key)
    /\ ttlLast' = [ttlLast EXCEPT ![key] = NoTtlWrite]
    /\ ttlRet' = [NoTtlRet EXCEPT !.op = "delete", !.key = key, !.at = ttlNow,
                     !.err = IF StoreHas(ttlStore, key) THEN ErrNone
                             ELSE ErrKeyNotFound]
    /\ UNCHANGED <<ttlNow, tpc>>
    /\ UNCHANGED ttlRest

\* TTLStorage.cleanupExpired(): one pass of the sweeper
cleanupExpired ==
    /\ ttlData' = [k \in TtlKeys |->
                     IF ttlData[k] # 0 /\ After(ttlNow, ttlData[k]) THEN 0
                     ELSE ttlData[k]]
    /\ ttlStore' = [k \in TtlKeys |->
                     IF ttlData[k] # 0 /\ After(ttlNow, ttlData[k]) THEN NoValue
                     ELSE ttlStore[k]]
    /\ ttlRet' = [NoTtlRet EXCEPT !.op = "sweep", !.at = ttlNow]
    /\ UNCHANGED <<ttlNow, tpc, ttlLast>>
    /\ UNCHANGED ttlRest

(***************************************************************************)
(* Compression layer (src/unnamed/part_010).  A value is a sequence of     *)
(* bytes.  A compressed stream is modelled by its framing: the codec's     *)
(* two-byte header, the length, the bytes, and a checksum; the reader      *)
(* rejects a stream whose header, length or checksum is wrong.             *)
(***************************************************************************)
CompressionNone == "none"
CompressionGZIP == "gzip"
CompressionZlib == "zlib"
CompressionTypes == {CompressionNone, CompressionGZIP, CompressionZlib}

CompKeys == {"z"}
\* 0x1F, 0x8B, 'x' (0x78) and 'a'
CompBytes == {31, 139, 120, 97}
Thresholds == {0, 1, 2}
NoBytes == <<-1>>

RECURSIVE BytesUpTo(_)
BytesUpTo(n) ==
    IF n = 0 THEN {<<>>}
    ELSE BytesUpTo(n - 1)
            \cup {Append(b, c) : b \in {x \in BytesUpTo(n - 1) : Len(x) = n - 1},
                                 c \in CompBytes}

RECURSIVE ByteSum(_)
ByteSum(b) == IF Len(b) = 0 THEN 0 ELSE (b[1] + ByteSum(Tail(b))) % 256

HasPrefix(data, prefix) ==
    /\ Len(data) >= Len(prefix)
    /\ SubSeq(data, 1, Len(prefix)) = prefix

\* CompressedStorage.getCompressionPrefix()
getCompressionPrefix(ct) ==
    IF ct = CompressionGZIP THEN <<31, 139>>
    ELSE IF ct = CompressionZlib THEN <<120>>
    ELSE <<>>

\* the header a gzip.Writer / zlib.Writer starts its stream with
StreamHeader(ct) == IF ct = CompressionGZIP THEN <<31, 139>> ELSE <<120, 156>>

\* gzip.NewWriter / zlib.NewWriter, Write, Close: the stream for data
Deflate(ct, data) == StreamHeader(ct) \o <<Len(data)>> \o data \o <<ByteSum(data)>>

\* gzip.NewReader / zlib.NewReader and io.ReadAll
Inflate(ct, stream) ==
    LET n == Len(stream)
    IN  IF /\ n >= 4
           /\ HasPrefix(stream, StreamHeader(ct))
           /\ stream[3] = n - 4
           /\ stream[n] = ByteSum(SubSeq(stream, 4, n - 1))
        THEN [err |-> ErrNone, data |-> SubSeq(stream, 4, n - 1)]
        ELSE [err |-> "decompression failed", data |-> <<>>]

\* CompressedStorage.compress(data)
compress(ct, data) ==
    IF ct \in {CompressionGZIP, CompressionZlib}
    THEN getCompressionPrefix(ct) \o Deflate(ct, data)
    ELSE data

\* CompressedStorage.decompress(data)
decompress(ct, data) ==
    IF ct \in {CompressionGZIP, CompressionZlib}
    THEN Inflate(ct, SubSeq(data, Len(getCompressionPrefix(ct)) + 1, Len(data)))
    ELSE [err |-> ErrNone, data |-> data]

\* CompressedStorage.isCompressed(data)
isCompressed(ct, data) == HasPrefix(data, getCompressionPrefix(ct))

NoCompRet == [op |-> "none", key |-> "", value |-> <<>>, err |-> ErrNone]

CompInit ==
    /\ compressionType = CompressionNone
    /\ threshold = 0
    /\ compStore = [k \in CompKeys |-> NoBytes]
    /\ compLast = [k \in CompKeys |-> NoBytes]
    /\ compRet = NoCompRet

compRest == <<replVars, gateVars, walVars, casVars, ttlVars, bloomVars, cacheVars, vcVars,
    rbVars,
    mkVars,
    atomVars,
    batVars,
    rdVars,
    hVars,
    fmVars,
    cmVars,
    unVars>>

\* NewCompressedStorage(base, compType, threshold) over an empty base store
NewCompressedStorage(compType, th) ==
    /\ compressionType' = compType
    /\ threshold' = th
    /\ compStore' = [k \in CompKeys |-> NoBytes]
    /\ compLast' = [k \in CompKeys |-> NoBytes]
    /\ compRet' = [NoCompRet EXCEPT !.op = "new"]
    /\ UNCHANGED compRest

\* CompressedStorage.Set(key, value)
CompSet(key, value) ==
    /\ compStore' = [compStore EXCEPT ![key] =
                       IF Len(value) > threshold
                       THEN compress(compressionType, value) ELSE value]
    /\ compLast' = [compLast EXCEPT ![key] = value]
    /\ compRet' = [NoCompRet EXCEPT !.op = "set", !.key = key, !.value = value]
    /\ UNCHANGED <<compressionType, threshold>>
    /\ UNCHANGED compRest

\* CompressedStorage.Get(key)
CompGet(key) ==
    /\ LET stored == compStore[key]
           d      == decompress(compressionType, stored)
       IN  compRet' =
             IF stored = NoBytes
             THEN [NoCompRet EXCEPT !.op = "get", !.key = key, !.err = ErrKeyNotFound]
             ELSE IF isCompressed(compressionType, stored)
             THEN [NoCompRet EXCEPT !.op = "get", !.key = key,
                                    !.value = d.data, !.err = d.err]
             ELSE [NoCompRet EXCEPT !.op = "get", !.key = key, !.value = stored]
    /\ UNCHANGED <<compressionType, threshold, compStore, compLast>>
    /\ UNCHANGED compRest

(***************************************************************************)
(* Bloom filter layer (src/storage/bloom_filter.go), built for              *)
(* expectedElements = 1: nine bits and six hash functions, every one of     *)
(* them fnv.New64a(), so the six indices of a key are equal.  Contains      *)
(* holds only the read lock while getIndices resets, writes and sums the    *)
(* shared hash objects, so two Gets race on them.                           *)
(***************************************************************************)
BloomKeys == {"a", "b", "h"}
\* calculateSize(1, 0.01)
size == 9
\* calculateNumHashes(1, 9)
numHashes == 6

\* FNV-1a 64 of the key, modulo size
Fnv64a(key) == CASE key = "a" -> 7 [] key = "b" -> 1 [] key = "h" -> 7

\* BloomFilter.getIndices, from what the hash objects currently hold
getIndices(written) == [i \in 1..numHashes |-> Fnv64a(written) % size]

\* BloomFilter.Contains's loop over the indices
AllSet(bits, indices) == \A i \in 1..Len(indices) : indices[i] \in bits

\* BloomFilter.Contains(key) without a racing caller
Contains(bits, key) == AllSet(bits, getIndices(key))

BloomIdle == [at |-> "idle", key |-> ""]
NoBloomRet == [op |-> "none", key |-> "", positive |-> FALSE, err |-> ErrNone,
               known |-> FALSE]

\* NewOptimizedStorage(base, 1) over an empty base store
BloomInit ==
    /\ bloomBase = {}
    /\ bitset = {}
    /\ hasher = ""
    /\ bpc = [g \in Callers |-> BloomIdle]
    /\ bloomAdded = {}
    /\ bloomStartup = {}
    /\ bloomRet = NoBloomRet

bloomRest == <<replVars, gateVars, walVars, casVars, ttlVars, compVars, cacheVars, vcVars,
    rbVars,
    mkVars,
    atomVars,
    batVars,
    rdVars,
    hVars,
    fmVars,
    cmVars,
    unVars>>

\* process restart: NewOptimizedStorage(base, 1) over the base store as it is
NewOptimizedStorage ==
    /\ \A g \in Callers : bpc[g] = BloomIdle
    /\ bitset' = {}
    /\ hasher' = ""
    /\ bloomAdded' = {}
    /\ bloomStartup' = bloomBase
    /\ bloomRet' = NoBloomRet
    /\ UNCHANGED <<bloomBase, bpc>>
    /\ UNCHANGED bloomRest

\* OptimizedStorage.Set, first half: os.mu.Lock(); os.Storage.Set(key, value)
OptSetStore(g, key) ==
    /\ bpc[g] = BloomIdle
    /\ \A o \in Callers : bpc[o].at \notin {"add"}
    /\ bloomBase' = bloomBase \cup {key}
    /\ bpc' = [bpc EXCEPT ![g] = [at |-> "add", key |-> key]]
    /\ UNCHANGED <<bitset, hasher, bloomAdded, bloomStartup, bloomRet>>
    /\ UNCHANGED bloomRest

\* OptimizedStorage.Set, second half: bloomFilter.Add(key) under bf.mu.Lock()
OptSetAdd(g) ==
    /\ bpc[g].at = "add"
    /\ \A o \in Callers : bpc[o].at # "sum"
    /\ hasher' = bpc[g].key
    /\ bitset' = bitset \cup {getIndices(bpc[g].key)[i] : i \in 1..numHashes}
    /\ bloomAdded' = bloomAdded \cup {bpc[g].key}
    /\ bpc' = [bpc EXCEPT ![g] = BloomIdle]
    /\ UNCHANGED <<bloomBase, bloomStartup, bloomRet>>
    /\ UNCHANGED bloomRest

\* OptimizedStorage.Delete(key): the bits stay
OptDelete(g, key) ==
    /\ bpc[g] = BloomIdle
    /\ \A o \in Callers : bpc[o].at # "add"
    /\ bloomBase' = bloomBase \ {key}
    /\ UNCHANGED <<bitset, hasher, bpc, bloomAdded, bloomStartup, bloomRet>>
    /\ UNCHANGED bloomRest

\* OptimizedStorage.Get -> Contains: bf.mu.RLock(); h.Reset(); h.Write(key)
OptGetWrite(g, key) ==
    /\ bpc[g] = BloomIdle
    /\ hasher' = key
    /\ bpc' = [bpc EXCEPT ![g] = [at |-> "sum", key |-> key]]
    /\ UNCHANGED <<bloomBase, bitset, bloomAdded, bloomStartup, bloomRet>>
    /\ UNCHANGED bloomRest

\* OptimizedStorage.Get, rest: h.Sum64(), the bit tests, os.Storage.Get(key)
OptGetSum(g) ==
    /\ bpc[g].at = "sum"
    /\ LET positive == AllSet(bitset, getIndices(hasher))
           key      == bpc[g].key
       IN  bloomRet' = [op |-> "get", key |-> key, positive |-> positive,
                        err |-> IF positive /\ key \in bloomBase
                                THEN ErrNone ELSE ErrKeyNotFound,
                        known |-> key \in bloomAdded \cup bloomStartup]
    /\ bpc' = [bpc EXCEPT ![g] = BloomIdle]
    /\ UNCHANGED <<bloomBase, bitset, hasher, bloomAdded, bloomStartup>>
    /\ UNCHANGED bloomRest

(***************************************************************************)
(* Cache layer (src/unnamed/part_008), with the LRU strategy the server     *)
(* builds it with.  An element of the access list has an identity of its    *)
(* own: the lookup map holds element ids, and a caller that found an        *)
(* element keeps its id across the unlock/lock pairs of Get.  Get, Set and  *)
(* Delete take the cache's lock and the inner store in separate steps, as   *)
(* the code does; "stats.X++" outside the lock is a load and a later store. *)
(***************************************************************************)
CacheKeys == {"k", "j"}
CacheValues == {"v1"}
\* CacheStorage.maxSize
maxSize == 1
\* CacheStorage.ttl, in ticks of the model's clock
CacheTtl == 1
ElemIds == 1..MaxElems
NoEntry == [key |-> "", value |-> "", accessTime |-> 0]
CacheIdle == [at |-> "idle", key |-> "", value |-> "", after |-> FALSE,
              elem |-> 0, loaded |-> 0]
NoCacheRet == [op |-> "none", key |-> "", value |-> "", err |-> ErrNone,
               after |-> FALSE]

\* NewCacheStorage(base, LRU, maxSize, ttl) over an empty base store
CacheInit ==
    /\ cacheBase = [k \in CacheKeys |-> ""]
    /\ cache = [k \in CacheKeys |-> 0]
    /\ cacheElems = [e \in ElemIds |-> NoEntry]
    /\ accessList = <<>>
    /\ stats = [Hits |-> 0, Misses |-> 0, Evictions |-> 0]
    /\ cacheNow = 0
    /\ cpc = [g \in Callers |-> CacheIdle]
    /\ cacheDeleted = {}
    /\ cacheRet = NoCacheRet

cacheRest == <<replVars, gateVars, walVars, casVars, ttlVars, compVars, bloomVars, vcVars,
    rbVars,
    mkVars,
    atomVars,
    batVars,
    rdVars,
    hVars,
    fmVars,
    cmVars,
    unVars>>

\* the cache's map, elements, list and eviction counter as one value
CacheStruct ==
    [cache |-> cache, elems |-> cacheElems, list |-> accessList,
     evictions |-> stats.Evictions]

\* the element ids callers inside Get still hold
HeldElems == {cpc[g].elem : g \in Callers} \ {0}

\* ids of no element that is mapped, listed or held
FreeIds(c) == ElemIds \ (Range(c.list) \cup {c.cache[k] : k \in CacheKeys} \cup HeldElems)

\* list.Remove(elem): nothing happens when elem is not in the list
ListRemove(list, e) == SelectSeq(list, LAMBDA x : x # e)

\* list.MoveToFront(elem): nothing happens when elem is not in the list
MoveToFront(list, e) ==
    IF e \in Range(list) THEN <<e>> \o ListRemove(list, e) ELSE list

\* CacheStorage.evict() with strategy LRU
evict(c) ==
    IF c.list = <<>> THEN c
    ELSE LET e == c.list[Len(c.list)]
         IN  [c EXCEPT !.cache = [@ EXCEPT ![c.elems[e].key] = 0],
                       !.list = ListRemove(@, e),
                       !.evictions = @ + 1]

\* CacheStorage.addToCache(key, value)
addToCache(c, key, value, now) ==
    IF c.cache[key] # 0
    THEN [c EXCEPT !.elems = [@ EXCEPT ![c.cache[key]].value = value,
                                        ![c.cache[key]].accessTime = now],
                   !.list = MoveToFront(@, c.cache[key])]
    ELSE LET c1 == IF Cardinality({k \in CacheKeys : c.cache[k] # 0}) >= maxSize
                   THEN evict(c) ELSE c
             id == CHOOSE x \in FreeIds(c1) : \A y \in FreeIds(c1) : x <= y
         IN  [c1 EXCEPT !.elems = [@ EXCEPT ![id] = [key |-> key, value |-> value,
                                                     accessTime |-> now]],
                        !.list = <<id>> \o @,
                        !.cache = [@ EXCEPT ![key] = id]]

\* an entry that neither the map, the list nor a caller refers to is garbage
Collect(elems, map, list, held) ==
    [e \in ElemIds |->
        IF e \in Range(list) \cup {map[k] : k \in CacheKeys} \cup held
        THEN elems[e] ELSE NoEntry]

\* the element ids the callers other than g hold
HeldByOthers(g) == {cpc[o].elem : o \in Callers \ {g}} \ {0}

\* the cache's variables take the values of c
CacheBecomes(c) ==
    /\ cache' = c.cache
    /\ cacheElems' = Collect(c.elems, c.cache, c.list, HeldElems)
    /\ accessList' = c.list
    /\ stats' = [stats EXCEPT !.Evictions = c.evictions]

CacheBudget == stats.Hits + stats.Misses + stats.Evictions < MaxStat

CacheTick ==
    /\ cacheNow < MaxCacheNow
    /\ cacheNow' = cacheNow + 1
    /\ UNCHANGED <<cacheBase, cache, cacheElems, accessList, stats, cpc,
                   cacheDeleted, cacheRet>>
    /\ UNCHANGED cacheRest

\* CacheStorage.Get under the read lock: a miss loads stats.Misses and goes
\* on to the inner store; an expired element is kept in hand for the
\* removal; a fresh one gets its accessTime and is kept in hand for
\* MoveToFront
CacheGetLookup(g, key) ==
    /\ cpc[g] = CacheIdle
    /\ CacheBudget
    /\ LET e     == cache[key]
           after == key \in cacheDeleted
       IN  IF e = 0
           THEN /\ cpc' = [cpc EXCEPT ![g] = [CacheIdle EXCEPT
                             !.at = "base", !.key = key, !.after = after,
                             !.loaded = stats.Misses]]
                /\ UNCHANGED cacheElems
           ELSE IF cacheNow - cacheElems[e].accessTime > CacheTtl
           THEN /\ cpc' = [cpc EXCEPT ![g] = [CacheIdle EXCEPT
                             !.at = "expire", !.key = key, !.after = after,
                             !.elem = e]]
                /\ UNCHANGED cacheElems
           ELSE /\ cpc' = [cpc EXCEPT ![g] = [CacheIdle EXCEPT
                             !.at = "front", !.key = key, !.after = after,
                             !.elem = e]]
                /\ cacheElems' = [cacheElems EXCEPT ![e].accessTime = cacheNow]
    /\ UNCHANGED <<cacheBase, cache, accessList, stats, cacheNow, cacheDeleted,
                   cacheRet>>
    /\ UNCHANGED cacheRest

\* CacheStorage.Get, the expired element: Lock; delete(cs.cache, key);
\* cs.accessList.Remove(elem); Unlock; then stats.Misses is loaded
CacheGetExpire(g) ==
    /\ cpc[g].at = "expire"
    /\ cache' = [cache EXCEPT ![cpc[g].key] = 0]
    /\ accessList' = ListRemove(accessList, cpc[g].elem)
    /\ cacheElems' = Collect(cacheElems, cache', accessList', HeldByOthers(g))
    /\ cpc' = [cpc EXCEPT ![g].at = "base", ![g].elem = 0,
                          ![g].loaded = stats.Misses]
    /\ UNCHANGED <<cacheBase, stats, cacheNow, cacheDeleted, cacheRet>>
    /\ UNCHANGED cacheRest

\* CacheStorage.Get, the fresh element: Lock; MoveToFront(elem); Unlock;
\* then stats.Hits is loaded
CacheGetFront(g) ==
    /\ cpc[g].at = "front"
    /\ accessList' = MoveToFront(accessList, cpc[g].elem)
    /\ cpc' = [cpc EXCEPT ![g].at = "hit", ![g].loaded = stats.Hits]
    /\ UNCHANGED <<cacheBase, cache, cacheElems, stats, cacheNow, cacheDeleted,
                   cacheRet>>
    /\ UNCHANGED cacheRest

\* CacheStorage.Get: stats.Hits is stored; return entry.value
CacheGetHit(g) ==
    /\ cpc[g].at = "hit"
    /\ stats' = [stats EXCEPT !.Hits = cpc[g].loaded + 1]
    /\ cacheRet' = [op |-> "get", key |-> cpc[g].key,
                    value |-> cacheElems[cpc[g].elem].value,
                    err |-> ErrNone, after |-> cpc[g].after]
    /\ cacheElems' = Collect(cacheElems, cache, accessList, HeldByOthers(g))
    /\ cpc' = [cpc EXCEPT ![g] = CacheIdle]
    /\ UNCHANGED <<cacheBase, cache, accessList, cacheNow, cacheDeleted>>
    /\ UNCHANGED cacheRest

\* CacheStorage.Get: stats.Misses is stored; cs.Storage.Get(key)
CacheGetBase(g) ==
    /\ cpc[g].at = "base"
    /\ stats' = [stats EXCEPT !.Misses = cpc[g].loaded + 1]
    /\ LET key == cpc[g].key
       IN  IF cacheBase[key] = ""
           THEN /\ cacheRet' = [op |-> "get", key |-> key, value |-> "",
                                err |-> ErrKeyNotFound, after |-> cpc[g].after]
                /\ cpc' = [cpc EXCEPT ![g] = CacheIdle]
           ELSE /\ cacheRet' = cacheRet
                /\ cpc' = [cpc EXCEPT ![g].at = "fill", ![g].value = cacheBase[key]]
    /\ UNCHANGED <<cacheBase, cache, cacheElems, accessList, cacheNow, cacheDeleted>>
    /\ UNCHANGED cacheRest

\* CacheStorage.Get: Lock; cs.addToCache(key, value); Unlock; return value
CacheGetFill(g) ==
    /\ cpc[g].at = "fill"
    /\ FreeIds(CacheStruct) # {}
    /\ CacheBecomes(addToCache(CacheStruct, cpc[g].key, cpc[g].value, cacheNow))
    /\ cacheRet' = [op |-> "get", key |-> cpc[g].key, value |-> cpc[g].value,
                    err |-> ErrNone, after |-> cpc[g].after]
    /\ cpc' = [cpc EXCEPT ![g] = CacheIdle]
    /\ UNCHANGED <<cacheBase, cacheNow, cacheDeleted>>
    /\ UNCHANGED cacheRest

\* CacheStorage.Set: cs.Storage.Set(key, value).  A Set that starts ends the
\* "deleted" period of its key, also for the Gets already on their way, and
\* a Delete it overlaps does not start such a period ("after" of a Delete on
\* its way records the overlap).
CacheSetBase(g, key, value) ==
    /\ cpc[g] = CacheIdle
    /\ CacheBudget
    /\ cacheBase' = [cacheBase EXCEPT ![key] = value]
    /\ cacheDeleted' = cacheDeleted \ {key}
    /\ cpc' = [o \in Callers |->
                 IF o = g THEN [CacheIdle EXCEPT !.at = "setcache", !.key = key,
                                                 !.value = value]
                 ELSE IF cpc[o].key = key
                 THEN [cpc[o] EXCEPT !.after = (cpc[o].at = "delbase")]
                 ELSE cpc[o]]
    /\ UNCHANGED <<cache, cacheElems, accessList, stats, cacheNow, cacheRet>>
    /\ UNCHANGED cacheRest

\* CacheStorage.Set: Lock; cs.addToCache(key, value); Unlock
CacheSetCache(g) ==
    /\ cpc[g].at = "setcache"
    /\ FreeIds(CacheStruct) # {}
    /\ CacheBecomes(addToCache(CacheStruct, cpc[g].key, cpc[g].value, cacheNow))
    /\ cpc' = [cpc EXCEPT ![g] = CacheIdle]
    /\ UNCHANGED <<cacheBase, cacheNow, cacheDeleted, cacheRet>>
    /\ UNCHANGED cacheRest

\* CacheStorage.Delete: the entry leaves the map and the list
CacheDeleteCache(g, key) ==
    /\ cpc[g] = CacheIdle
    /\ cache' = [cache EXCEPT ![key] = 0]
    /\ accessList' = IF cache[key] # 0 THEN ListRemove(accessList, cache[key])
                     ELSE accessList
    /\ cacheElems' = Collect(cacheElems, cache', accessList', HeldElems)
    /\ cpc' = [cpc EXCEPT ![g] = [CacheIdle EXCEPT
                 !.at = "delbase", !.key = key,
                 !.after = \E o \in Callers :
                              cpc[o].at = "setcache" /\ cpc[o].key = key]]
    /\ UNCHANGED <<cacheBase, stats, cacheNow, cacheDeleted, cacheRet>>
    /\ UNCHANGED cacheRest

\* CacheStorage.Delete: return cs.Storage.Delete(key).  The key counts as
\* deleted from here on unless a Set of it overlapped this Delete.
CacheDeleteBase(g) ==
    /\ cpc[g].at = "delbase"
    /\ cacheBase' = [cacheBase EXCEPT ![cpc[g].key] = ""]
    /\ cacheDeleted' =
         IF cpc[g].after THEN cacheDeleted ELSE cacheDeleted \cup {cpc[g].key}
    /\ cpc' = [cpc EXCEPT ![g] = CacheIdle]
    /\ UNCHANGED <<cache, cacheElems, accessList, stats, cacheNow, cacheRet>>
    /\ UNCHANGED cacheRest

\* CacheStorage.PreloadKeys([]string{key}), all of it under the lock
PreloadKeys(key) ==
    /\ CacheBudget
    /\ FreeIds(CacheStruct) # {}
    /\ CacheBecomes(IF cache[key] = 0 /\ cacheBase[key] # ""
                    THEN addToCache(CacheStruct, key, cacheBase[key], cacheNow)
                    ELSE CacheStruct)
    /\ UNCHANGED <<cacheBase, cacheNow, cpc, cacheDeleted, cacheRet>>
    /\ UNCHANGED cacheRest

(***************************************************************************)
(* Vector clocks and conflict resolution (src/storage/vector_clock.go).     *)
(* A VectorClock is a Go map: a function on the node ids it has an entry    *)
(* for.  Three versioned values with distinct values are drawn, so that     *)
(* the value of a result tells which version was selected.                  *)
(***************************************************************************)
VcNodes == {"n1", "n2"}
VectorClocks == UNION {[S -> 0..MaxVc] : S \in SUBSET VcNodes}
VersionNames == <<"x", "y", "z">>
VersionedValues(v) == [Value : {v}, VectorClock : VectorClocks, Timestamp : 1..MaxTs]
NoVersion == [Value |-> "", VectorClock |-> <<>>, Timestamp |-> 0]
NoResolved == [op |-> "none", ab |-> NoVersion, ba |-> NoVersion,
               left |-> NoVersion, right |-> NoVersion, swapped |-> NoVersion]

\* VectorClock.Compare(other)
Compare(vc, other) ==
    LET vcGreater ==
            \E n \in DOMAIN vc :
                IF n \in DOMAIN other THEN vc[n] > other[n] ELSE vc[n] > 0
        otherGreater ==
            \/ \E n \in DOMAIN vc : n \in DOMAIN other /\ vc[n] < other[n]
            \/ \E n \in DOMAIN other : n \notin DOMAIN vc /\ other[n] > 0
    IN  IF vcGreater /\ ~otherGreater THEN "greater"
        ELSE IF ~vcGreater /\ otherGreater THEN "less"
        ELSE IF vcGreater /\ otherGreater THEN "concurrent"
        ELSE "equal"

\* ConflictResolver.ResolveConflict(current, incoming)
ResolveConflict(current, incoming) ==
    LET comparison == Compare(current.VectorClock, incoming.VectorClock)
    IN  IF comparison = "greater" THEN current
        ELSE IF comparison = "less" THEN incoming
        ELSE IF current.Timestamp >= incoming.Timestamp THEN current
        ELSE incoming

\* no version has been received yet
VcInit ==
    /\ versions = [a |-> NoVersion, b |-> NoVersion, c |-> NoVersion]
    /\ resolved = NoResolved

vcRest == <<replVars, gateVars, walVars, casVars, ttlVars, compVars, bloomVars,
            cacheVars,
    rbVars,
    mkVars,
    atomVars,
    batVars,
    rdVars,
    hVars,
    fmVars,
    cmVars,
    unVars>>

\* three versions of one key arrive, each with its own clock and timestamp
ReceiveVersions ==
    /\ versions.a = NoVersion
    /\ versions' \in [a : VersionedValues(VersionNames[1]),
                      b : VersionedValues(VersionNames[2]),
                      c : VersionedValues(VersionNames[3])]
    /\ UNCHANGED resolved
    /\ UNCHANGED vcRest

\* a replica resolves a against b, another one b against a
ResolvePair ==
    /\ versions.a # NoVersion
    /\ resolved' = [NoResolved EXCEPT
                      !.op = "pair",
                      !.ab = ResolveConflict(versions.a, versions.b),
                      !.ba = ResolveConflict(versions.b, versions.a)]
    /\ UNCHANGED versions
    /\ UNCHANGED vcRest

\* replicas fold ResolveConflict over a, b, c in different groupings and orders
ResolveFold ==
    /\ versions.a # NoVersion
    /\ resolved' = [NoResolved EXCEPT
                      !.op = "fold",
                      !.left = ResolveConflict(ResolveConflict(versions.a, versions.b),
                                               versions.c),
                      !.right = ResolveConflict(versions.a,
                                                ResolveConflict(versions.b, versions.c)),
                      !.swapped = ResolveConflict(ResolveConflict(versions.c, versions.a),
                                                  versions.b)]
    /\ UNCHANGED versions
    /\ UNCHANGED vcRest

(***************************************************************************)
(* Rebalancer (src/cluster/rebalancer.go).  This node is "n1"; the other    *)
(* node "n2" runs InternalSetHandler over its own store.  TriggerRebalance  *)
(* holds no lock on the store, so client writes go on while it runs.  The   *)
(* platform's int is 64 bits wide, so int(h.Sum32()) is never negative.     *)
(***************************************************************************)
RbSelf == "n1"
RbNodes == {"n1", "n2"}
RbKeys == {"k1", "k2", "k3"}
RbValues == {"v1"}
\* what can become of one POST /internal/set: stored and answered 201; the
\* owner's Set fails and it answers 500; the request never arrives; stored
\* but the answer is lost
Outcomes == {"created", "status", "timeout", "lost"}
NodeLists == {<<>>, <<"n1">>, <<"n2", "n1">>}

\* fnv.New32a() over the key, Sum32(), kept modulo 6 (which fixes it modulo
\* every node count up to 3): k1 -> 2554167489, k2 -> 2503834632,
\* k3 -> 2520612251
Fnv32a(key) == CASE key = "k1" -> 3 [] key = "k2" -> 0 [] key = "k3" -> 5

\* sort.Strings(nodes)
SortStrings(nodeList) ==
    IF Len(nodeList) = 2 /\ nodeList[1] = "n2" /\ nodeList[2] = "n1"
    THEN <<nodeList[2], nodeList[1]>> ELSE nodeList

\* chooseOwner(key, nodes)
chooseOwner(key, nodeList) == nodeList[(Fnv32a(key) % Len(nodeList)) + 1]

RbStored(st) == {k \in RbKeys : st[k] # ""}

NoRbLast == [op |-> "none", key |-> "", outcome |-> "", owner |-> "",
             localBefore |-> "", localAfter |-> "", peerAfter |-> "",
             movedBefore |-> 0, movedAfter |-> 0]
NoRbRet == [op |-> "none", moved |-> 0, accepted |-> 0, removed |-> 0,
            misplaced |-> {}, excused |-> {}, onBoth |-> {}, onNone |-> {}]

RbInit ==
    /\ rbStore = [k \in RbKeys |-> ""]
    /\ rbPeer = [k \in RbKeys |-> ""]
    /\ rbPc = "idle"
    /\ rbNodes = <<>>
    /\ rbItems = <<>>
    /\ rbMoved = 0
    /\ rbHist = [before |-> {}, accepted |-> 0, removed |-> 0, failed |-> {},
                 late |-> {}]
    /\ rbLast = NoRbLast
    /\ rbRet = NoRbRet

rbRest == <<replVars, gateVars, walVars, casVars, ttlVars, compVars, bloomVars,
    cacheVars, vcVars,
    mkVars,
    atomVars,
    batVars,
    rdVars,
    hVars,
    fmVars,
    cmVars,
    unVars>>

\* a client's Set reaches the local store (MemoryStorage.Set)
RbClientSet(key, value) ==
    /\ rbStore[key] = ""
    /\ rbStore' = [rbStore EXCEPT ![key] = value]
    /\ rbHist' = [rbHist EXCEPT !.late = IF rbPc = "loop" THEN @ \cup {key} ELSE @]
    /\ UNCHANGED <<rbPeer, rbPc, rbNodes, rbItems, rbMoved, rbLast, rbRet>>
    /\ UNCHANGED rbRest

\* TriggerRebalance up to the loop: GetNodes, the empty-list return,
\* sort.Strings, store.GetAll (a map, so the items come in any order)
RbStart(nodeList, items) ==
    /\ rbPc \in {"idle", "done"}
    /\ rbStore # [k \in RbKeys |-> ""]
    /\ items \in Perms(RbStored(rbStore))
    /\ rbLast' = NoRbLast
    /\ rbMoved' = 0
    /\ rbHist' = [before |-> RbStored(rbStore), accepted |-> 0, removed |-> 0,
                  failed |-> {}, late |-> {}]
    /\ IF Len(nodeList) = 0
       THEN /\ rbPc' = "done"
            /\ rbRet' = [NoRbRet EXCEPT !.op = "empty"]
            /\ UNCHANGED <<rbNodes, rbItems>>
       ELSE /\ rbPc' = "loop"
            /\ rbNodes' = SortStrings(nodeList)
            /\ rbItems' = [i \in 1..Len(items) |->
                             [Key |-> items[i], Value |-> rbStore[items[i]]]]
            /\ rbRet' = NoRbRet
    /\ UNCHANGED <<rbStore, rbPeer>>
    /\ UNCHANGED rbRest

\* mutant: the local copy is deleted whatever the owner answered
RbTransfer_DeleteAlways(outcome) ==
    /\ rbPc = "loop"
    /\ rbItems # <<>>
    /\ LET item     == Head(rbItems)
           owner    == chooseOwner(item.Key, rbNodes)
           stored   == owner # RbSelf /\ outcome \in {"created", "lost"}
           accepted == owner # RbSelf /\ outcome = "created"
       IN  /\ rbPeer' = IF stored THEN [rbPeer EXCEPT ![item.Key] = item.Value]
                        ELSE rbPeer
           /\ rbStore' = IF owner # RbSelf THEN [rbStore EXCEPT ![item.Key] = ""]
                         ELSE rbStore
           /\ rbMoved' = IF accepted THEN rbMoved + 1 ELSE rbMoved
           /\ rbHist' = [rbHist EXCEPT
                           !.accepted = IF accepted THEN @ + 1 ELSE @,
                           !.removed = IF accepted /\ rbStore[item.Key] # ""
                                       THEN @ + 1 ELSE @,
                           !.failed = IF owner # RbSelf /\ ~accepted
                                      THEN @ \cup {item.Key} ELSE @]
           /\ rbLast' = [op |-> "transfer", key |-> item.Key,
                         outcome |-> IF owner = RbSelf THEN "own" ELSE outcome,
                         owner |-> owner,
                         localBefore |-> rbStore[item.Key],
                         localAfter |-> rbStore'[item.Key],
                         peerAfter |-> rbPeer'[item.Key],
                         movedBefore |-> rbMoved, movedAfter |-> rbMoved']
    /\ rbItems' = Tail(rbItems)
    /\ UNCHANGED <<rbPc, rbNodes, rbRet>>
    /\ UNCHANGED rbRest

\* one pass of TriggerRebalance's loop: the next item is skipped when this
\* node owns it, otherwise posted to its owner and, on an answer below 300,
\* deleted locally and counted
RbTransfer(outcome) ==
    /\ rbPc = "loop"
    /\ rbItems # <<>>
    /\ LET item     == Head(rbItems)
           owner    == chooseOwner(item.Key, rbNodes)
           stored   == owner # RbSelf /\ outcome \in {"created", "lost"}
           accepted == owner # RbSelf /\ outcome = "created"
       IN  /\ rbPeer' = IF stored THEN [rbPeer EXCEPT ![item.Key] = item.Value]
                        ELSE rbPeer
           /\ rbStore' = IF accepted THEN [rbStore EXCEPT ![item.Key] = ""]
                         ELSE rbStore
           /\ rbMoved' = IF accepted THEN rbMoved + 1 ELSE rbMoved
           /\ rbHist' = [rbHist EXCEPT
                           !.accepted = IF accepted THEN @ + 1 ELSE @,
                           !.removed = IF accepted /\ rbStore[item.Key] # ""
                                       THEN @ + 1 ELSE @,
                           !.failed = IF owner # RbSelf /\ ~accepted
                                      THEN @ \cup {item.Key} ELSE @]
           /\ rbLast' = [op |-> "transfer", key |-> item.Key,
                         outcome |-> IF owner = RbSelf THEN "own" ELSE outcome,
                         owner |-> owner,
                         localBefore |-> rbStore[item.Key],
                         localAfter |-> rbStore'[item.Key],
                         peerAfter |-> rbPeer'[item.Key],
                         movedBefore |-> rbMoved, movedAfter |-> rbMoved']
    /\ rbItems' = Tail(rbItems)
    /\ UNCHANGED <<rbPc, rbNodes, rbRet>>
    /\ UNCHANGED rbRest

\* TriggerRebalance: return movedCount, nil
RbFinish ==
    /\ rbPc = "loop"
    /\ rbItems = <<>>
    /\ rbPc' = "done"
    /\ LET misplaced == {k \in RbStored(rbStore) : chooseOwner(k, rbNodes) # RbSelf}
       IN  rbRet' = [op |-> "rebalance", moved |-> rbMoved,
                     accepted |-> rbHist.accepted, removed |-> rbHist.removed,
                     misplaced |-> misplaced,
                     excused |-> rbHist.failed \cup rbHist.late,
                     onBoth |-> {k \in rbHist.before :
                                   rbStore[k] # "" /\ rbPeer[k] # ""},
                     onNone |-> {k \in rbHist.before :
                                   rbStore[k] = "" /\ rbPeer[k] = ""}]
    /\ UNCHANGED <<rbStore, rbPeer, rbNodes, rbItems, rbMoved, rbHist, rbLast>>
    /\ UNCHANGED rbRest

RebalNext ==
    \/ \E k \in RbKeys, v \in RbValues : RbClientSet(k, v)
    \/ \E nodeList \in NodeLists, items \in UNION {Perms(S) : S \in SUBSET RbKeys} :
          RbStart(nodeList, items)
    \/ \E o \in Outcomes : RbTransfer(o)
    \/ RbFinish

\* the value of a client's second write of a key
RbLateValues == {"v2"}

\* a client's Set, arriving while the rebalance runs, of a key the local
\* store already holds: SetHandler reaches MemoryStorage.Set, which replaces
\* the value, then replicates (the POST /internal/set reaches the owner or
\* not) and acknowledges either way
RbClientOverwrite(key, value, reached) ==
    /\ rbPc = "loop"
    /\ rbStore[key] # ""
    /\ rbStore[key] # value
    /\ rbStore' = [rbStore EXCEPT ![key] = value]
    /\ rbPeer' = IF reached THEN [rbPeer EXCEPT ![key] = value] ELSE rbPeer
    /\ rbHist' = [rbHist EXCEPT !.late = @ \cup {key}]
    /\ UNCHANGED <<rbPc, rbNodes, rbItems, rbMoved, rbLast, rbRet>>
    /\ UNCHANGED rbRest

RebalWriteNext ==
    \/ \E k \in RbKeys, v \in RbValues : RbClientSet(k, v)
    \/ \E k \in RbKeys, v \in RbLateValues, reached \in BOOLEAN :
          RbClientOverwrite(k, v, reached)
    \/ \E nodeList \in NodeLists, items \in UNION {Perms(S) : S \in SUBSET RbKeys} :
          RbStart(nodeList, items)
    \/ \E o \in Outcomes : RbTransfer(o)
    \/ RbFinish

(***************************************************************************)
(* Merkle tree (src/synchro/merkle_tree.go).  A string is a sequence of     *)
(* atoms; hashData(s) is the one atom that stands for the 40 hex digits of  *)
(* SHA-1(s), a different atom for every s (SHA-1 taken as collision-free),  *)
(* so that concatenating two hashes and hashing or comparing the result is  *)
(* what the code does with the hex strings.                                 *)
(***************************************************************************)
Char(c) == [c |-> c, h |-> <<>>]
\* hashData(data)
hashData(data) == <<[c |-> "#", h |-> data]>>

KeyA == <<Char("a")>>
KeyB == <<Char("b")>>
\* the 80 hex digits hashData("a") + hashData("b"), used as a key
KeyHashes == hashData(KeyA) \o hashData(KeyB)
\* the keys trees are built from, in the order of sort.Strings: the empty
\* key, the hex key (SHA-1("a") starts with "8"), "a", "b"
MerkleKeys == <<<<>>, KeyHashes, KeyA, KeyB>>
KeyLists ==
    UNION {{[i \in 1..Cardinality(S) |-> MerkleKeys[f[i]]] : f \in Perms(S)} :
              S \in SUBSET (1..Len(MerkleKeys))}

NilNode == [nil |-> TRUE]
MerkleNode(hash, left, right) == [Hash |-> hash, Left |-> left, Right |-> right]

\* sort.Strings(keys)
SortKeys(keys) ==
    LET present == {i \in 1..Len(MerkleKeys) : \E j \in 1..Len(keys) : keys[j] = MerkleKeys[i]}
        Rank(i) == Cardinality({j \in present : j <= i})
    IN  [r \in 1..Cardinality(present) |->
            MerkleKeys[CHOOSE i \in present : Rank(i) = r]]

RECURSIVE buildTree(_)
\* buildTree(nodes)
buildTree(level) ==
    IF Len(level) = 1 THEN level[1]
    ELSE buildTree(
           [i \in 1..((Len(level) + 1) \div 2) |->
              IF 2 * i <= Len(level)
              THEN MerkleNode(hashData(level[2 * i - 1].Hash \o level[2 * i].Hash),
                              level[2 * i - 1], level[2 * i])
              ELSE MerkleNode(hashData(level[2 * i - 1].Hash \o level[2 * i - 1].Hash),
                              level[2 * i - 1], NilNode)])

\* NewMerkleTree(keys).root
NewMerkleTree(keys) ==
    IF Len(keys) = 0 THEN MerkleNode(hashData(<<>>), NilNode, NilNode)
    ELSE LET sorted == SortKeys(keys)
         IN  buildTree([i \in 1..Len(sorted) |->
                          MerkleNode(hashData(sorted[i]), NilNode, NilNode)])

RECURSIVE findDifferences(_, _, _)
\* findDifferences(node1, node2, path)
findDifferences(node1, node2, path) ==
    IF node1 = NilNode /\ node2 = NilNode THEN <<>>
    ELSE IF node1 = NilNode
    THEN <<[Key |-> path, Reason |-> "node missing in first tree"]>>
    ELSE IF node2 = NilNode
    THEN <<[Key |-> path, Reason |-> "node missing in second tree"]>>
    ELSE IF node1.Hash # node2.Hash
    THEN IF node1.Left = NilNode /\ node1.Right = NilNode
         THEN <<[Key |-> path, Reason |-> "key difference detected"]>>
         ELSE findDifferences(node1.Left, node2.Left, Append(path, "L"))
                \o findDifferences(node1.Right, node2.Right, Append(path, "R"))
    ELSE <<>>

\* CompareTrees(tree1, tree2)
CompareTrees(root1, root2) ==
    IF root1.Hash = root2.Hash THEN <<>> ELSE findDifferences(root1, root2, <<>>)

NoMkRet == [op |-> "none", keys1 |-> <<>>, keys2 |-> <<>>, root1 |-> <<>>,
            root2 |-> <<>>, diffs12 |-> <<>>, diffs21 |-> <<>>]

MerkleInit == mkRet = NoMkRet

mkRest == <<replVars, gateVars, walVars, casVars, ttlVars, compVars, bloomVars,
    cacheVars, vcVars, rbVars,
    atomVars,
    batVars,
    rdVars,
    hVars,
    fmVars,
    cmVars,
    unVars>>

\* two nodes build their trees from their key lists and compare them
BuildAndCompare(keys1, keys2) ==
    /\ mkRet = NoMkRet
    /\ LET tree1 == NewMerkleTree(keys1)
           tree2 == NewMerkleTree(keys2)
       IN  mkRet' = [op |-> "compare", keys1 |-> keys1, keys2 |-> keys2,
                     root1 |-> tree1.Hash, root2 |-> tree2.Hash,
                     diffs12 |-> CompareTrees(tree1, tree2),
                     diffs21 |-> CompareTrees(tree2, tree1)]
    /\ UNCHANGED mkRest

MerkleNext == \E keys1 \in KeyLists, keys2 \in KeyLists : BuildAndCompare(keys1, keys2)

(***************************************************************************)
(* Atomic counters (src/storage/atomic.go).  int64 is modelled as the       *)
(* two's-complement range MinInt..MaxInt with wrap-around addition; a       *)
(* stored value is a string, here a sequence of characters, and ParseInt /  *)
(* FormatInt convert between the two.  Set and Delete are the embedded      *)
(* store's and do not take the layer's mutex.                               *)
(***************************************************************************)
MinInt == -(MaxInt + 1)
IntRange == MinInt..MaxInt
\* int64 addition
WrapAdd(a, b) == ((a + b - MinInt) % (2 * (MaxInt + 1))) + MinInt

Digits == <<"0", "1", "2", "3", "4", "5", "6", "7", "8", "9">>
DigitOf(c) == CHOOSE d \in 0..9 : Digits[d + 1] = c
IsDigit(c) == \E d \in 0..9 : Digits[d + 1] = c
AtomAbsent == <<"<absent>">>

\* strconv.FormatInt(n, 10) for a one-digit magnitude
FormatInt(n) == IF n < 0 THEN <<"-", Digits[(-n) + 1]>> ELSE <<Digits[n + 1]>>

\* strconv.ParseInt(s, 10, 64): an optional sign and one digit here; anything
\* else, and a number outside the range, is an error
ParseInt(s) ==
    LET body == IF Len(s) >= 1 /\ s[1] \in {"+", "-"} THEN Tail(s) ELSE s
        neg  == Len(s) >= 1 /\ s[1] = "-"
        n    == IF neg THEN -DigitOf(body[1]) ELSE DigitOf(body[1])
    IN  IF Len(body) = 1 /\ IsDigit(body[1]) /\ n \in IntRange
        THEN [ok |-> TRUE, n |-> n]
        ELSE [ok |-> FALSE, n |-> 0]

\* what clients store under the counter's key
AtomValues == {<<"+", "1">>, FormatInt(MaxInt), <<"x">>}
Deltas == {1, 2}
AtomIdle == [at |-> "idle", delta |-> 0, current |-> AtomAbsent]
NoAtomRet == [op |-> "none", delta |-> 0, before |-> AtomAbsent,
              prev |-> AtomAbsent, after |-> AtomAbsent, value |-> 0, err |-> ErrNone]

\* NewAtomicStorage(base) over an empty base store
AtomInit ==
    /\ atomStore = AtomAbsent
    /\ atomMu = ""
    /\ apc = [g \in Callers |-> AtomIdle]
    /\ atomHist = [base |-> 0, sum |-> 0, clean |-> TRUE, incs |-> 0, done |-> 0]
    /\ atomRet = NoAtomRet

atomRest == <<replVars, gateVars, walVars, casVars, ttlVars, compVars, bloomVars,
    cacheVars, vcVars, rbVars, mkVars,
    batVars,
    rdVars,
    hVars,
    fmVars,
    cmVars,
    unVars>>

\* a client's Set or Delete reaches the store through the embedded Storage;
\* the count of what the increments added restarts, and it is clean only if
\* no Increment was on its way
AtomSet(value) ==
    /\ atomStore' = value
    /\ atomHist' = [base |-> IF value # AtomAbsent /\ ParseInt(value).ok
                             THEN ParseInt(value).n ELSE 0,
                    sum |-> 0, incs |-> 0, done |-> atomHist.done,
                    clean |-> (atomMu = "" /\ (value = AtomAbsent \/ ParseInt(value).ok))]
    /\ UNCHANGED <<atomMu, apc, atomRet>>
    /\ UNCHANGED atomRest

\* mutant: Increment does not take the mutex
IncrementGet_NoLock(g, delta) ==
    /\ apc[g] = AtomIdle
    /\ atomHist.done < MaxIncs
    /\ apc' = [apc EXCEPT ![g] = [at |-> "set", delta |-> delta,
                                  current |-> atomStore]]
    /\ UNCHANGED <<atomStore, atomMu, atomHist, atomRet>>
    /\ UNCHANGED atomRest

\* AtomicStorage.Increment: s.mu.Lock(); current, err := s.Storage.Get(key)
IncrementGet(g, delta) ==
    /\ apc[g] = AtomIdle
    /\ atomHist.done < MaxIncs
    /\ atomMu = ""
    /\ atomMu' = g
    /\ apc' = [apc EXCEPT ![g] = [at |-> "set", delta |-> delta,
                                  current |-> atomStore]]
    /\ UNCHANGED <<atomStore, atomHist, atomRet>>
    /\ UNCHANGED atomRest

\* AtomicStorage.Decrement(key, delta)
DecrementGet(g, delta) == IncrementGet(g, WrapAdd(0, -delta))

\* AtomicStorage.Increment, the rest: parse, add, format, s.Storage.Set,
\* s.mu.Unlock()
IncrementSet(g, setOk) ==
    /\ apc[g].at = "set"
    /\ LET current  == apc[g].current
           parsed   == IF current = AtomAbsent THEN [ok |-> TRUE, n |-> 0]
                       ELSE ParseInt(current)
           newValue == WrapAdd(parsed.n, apc[g].delta)
           stored   == parsed.ok /\ setOk
       IN  /\ atomStore' = IF stored THEN FormatInt(newValue) ELSE atomStore
           /\ atomHist' = [atomHist EXCEPT
                             !.sum = IF stored THEN WrapAdd(@, apc[g].delta) ELSE @,
                             !.incs = @ + 1,
                             !.done = @ + 1]
           /\ atomRet' = [op |-> "increment", delta |-> apc[g].delta,
                          before |-> current, prev |-> atomStore,
                          after |-> atomStore',
                          value |-> IF stored THEN newValue ELSE 0,
                          err |-> IF ~parsed.ok THEN "value is not an integer"
                                  ELSE IF ~setOk THEN "set failed" ELSE ErrNone]
    /\ atomMu' = IF atomMu = g THEN "" ELSE atomMu
    /\ apc' = [apc EXCEPT ![g] = AtomIdle]
    /\ UNCHANGED atomRest

AtomNext ==
    \/ \E v \in AtomValues \cup {AtomAbsent} : AtomSet(v)
    \/ \E g \in Callers, d \in Deltas : IncrementGet(g, d)
    \/ \E g \in Callers, d \in Deltas : DecrementGet(g, d)
    \/ \E g \in Callers, ok \in BOOLEAN : IncrementSet(g, ok)

(***************************************************************************)
(* Batches (BatchStorage.ExecuteBatch).  One key is enough to see order and  *)
(* interleaving; the store below the layer is the in-memory map.  Set and   *)
(* Delete of other clients reach that store through the embedded Storage,   *)
(* without the batch mutex.                                                 *)
(***************************************************************************)
BatValues == {"v1", "v2"}
BatAbsent == "<absent>"
BatchOperation ==
    [Type : {"set"}, Value : BatValues] \cup
    [Type : {"delete", "get", "bogus"}, Value : {""}]
\* len(operations); the operations themselves are drawn as the loop reaches
\* them, nothing reads them earlier
BatchLens == 0..MaxOps
BatIdle == [at |-> "idle", len |-> 0, ops |-> <<>>, results |-> <<>>,
            start |-> BatAbsent, clean |-> TRUE]
NoBatRet == [ops |-> <<>>, results |-> <<>>, start |-> BatAbsent,
             end |-> BatAbsent, clean |-> TRUE, n |-> 0]

\* one pass of the loop body on the store: the BatchResult and the store after
ApplyOp(op, store) ==
    CASE op.Type = "set" ->
           [store |-> op.Value, res |-> [Operation |-> op, Error |-> ErrNone, Value |-> ""]]
      [] op.Type = "delete" ->
           IF store = BatAbsent
           THEN [store |-> store, res |-> [Operation |-> op, Error |-> ErrKeyNotFound, Value |-> ""]]
           ELSE [store |-> BatAbsent, res |-> [Operation |-> op, Error |-> ErrNone, Value |-> ""]]
      [] op.Type = "get" ->
           IF store = BatAbsent
           THEN [store |-> store, res |-> [Operation |-> op, Error |-> ErrKeyNotFound, Value |-> ""]]
           ELSE [store |-> store, res |-> [Operation |-> op, Error |-> ErrNone, Value |-> store]]
      [] OTHER ->
           [store |-> store, res |-> [Operation |-> op, Error |-> "unknown operation type", Value |-> ""]]

\* the batch run alone on a store, operation after operation
RECURSIVE RunAlone(_, _)
RunAlone(ops, store) ==
    IF ops = <<>> THEN [store |-> store, results |-> <<>>]
    ELSE LET first == ApplyOp(Head(ops), store)
             rest  == RunAlone(Tail(ops), first.store)
         IN  [store |-> rest.store, results |-> <<first.res>> \o rest.results]

\* NewBatchStorage(base) over an empty base store
BatchInit ==
    /\ batStore = BatAbsent
    /\ batMu = ""
    /\ batPc = [g \in Callers |-> BatIdle]
    /\ batRet = NoBatRet

batRest == <<replVars, gateVars, walVars, casVars, ttlVars, compVars, bloomVars,
    cacheVars, vcVars, rbVars, mkVars, atomVars,
    rdVars,
    hVars,
    fmVars,
    cmVars,
    unVars>>

\* another client's Set or Delete, through the embedded Storage
BatPlainWrite(value) ==
    /\ batRet.n < MaxBatches
    /\ batStore # value
    /\ batStore' = value
    /\ batPc' = [g \in Callers |->
                   IF batPc[g].at = "idle" THEN batPc[g]
                   ELSE [batPc[g] EXCEPT !.clean = FALSE]]
    /\ UNCHANGED <<batMu, batRet>>
    /\ UNCHANGED batRest

\* mutant: ExecuteBatch does not take the mutex
ExecuteBatchLock_NoLock(g, length) ==
    /\ batPc[g].at = "idle"
    /\ batRet.n < MaxBatches
    /\ batPc' = [batPc EXCEPT ![g] = [at |-> "loop", len |-> length, ops |-> <<>>,
                                      results |-> <<>>, start |-> batStore,
                                      clean |-> TRUE]]
    /\ batRet' = [NoBatRet EXCEPT !.n = batRet.n]
    /\ UNCHANGED <<batStore, batMu>>
    /\ UNCHANGED batRest

\* ExecuteBatch: results := make(...); s.mu.Lock()
ExecuteBatchLock(g, length) ==
    /\ batPc[g].at = "idle"
    /\ batRet.n < MaxBatches
    /\ batMu = ""
    /\ batMu' = g
    /\ batPc' = [batPc EXCEPT ![g] = [at |-> "loop", len |-> length, ops |-> <<>>,
                                      results |-> <<>>, start |-> batStore,
                                      clean |-> TRUE]]
    /\ batRet' = [NoBatRet EXCEPT !.n = batRet.n]
    /\ UNCHANGED batStore
    /\ UNCHANGED batRest

\* ExecuteBatch: one pass of the loop, results[i] = result
ExecuteBatchOp(g, op) ==
    /\ batPc[g].at = "loop"
    /\ Len(batPc[g].results) < batPc[g].len
    /\ LET one == ApplyOp(op, batStore)
       IN  /\ batStore' = one.store
           /\ batPc' = [batPc EXCEPT ![g].ops = Append(@, op),
                                     ![g].results = Append(@, one.res)]
    /\ UNCHANGED <<batMu, batRet>>
    /\ UNCHANGED batRest

\* ExecuteBatch: return results, the deferred s.mu.Unlock()
ExecuteBatchReturn(g) ==
    /\ batPc[g].at = "loop"
    /\ Len(batPc[g].results) = batPc[g].len
    /\ batRet' = [ops |-> batPc[g].ops, results |-> batPc[g].results,
                  start |-> batPc[g].start, end |-> batStore,
                  clean |-> batPc[g].clean, n |-> batRet.n + 1]
    /\ batMu' = IF batMu = g THEN "" ELSE batMu
    /\ batPc' = [batPc EXCEPT ![g] = BatIdle]
    /\ UNCHANGED batStore
    /\ UNCHANGED batRest

BatchNext ==
    \/ \E v \in BatValues \cup {BatAbsent} : BatPlainWrite(v)
    \/ \E g \in Callers, n \in BatchLens : ExecuteBatchLock(g, n)
    \/ \E g \in Callers, op \in BatchOperation : ExecuteBatchOp(g, op)
    \/ \E g \in Callers : ExecuteBatchReturn(g)

(***************************************************************************)
(* Replicator.ReplicateDelete (src/replication/replication.go).  The caller *)
(* starts one goroutine per node and returns; the goroutines put what the   *)
(* peer answered on the errors channel; a last goroutine waits for them,    *)
(* reads the channel and writes the log.                                    *)
(***************************************************************************)
RdNodeLists == {<<>>, <<"n2">>, <<"n2", "n3">>}
RdReplicaCounts == {1, 2}
\* what a peer does with DELETE /internal/delete/<key>: a status below 400, a
\* status from 400 on, no answer within the second, or a request that could
\* not be built
PeerOutcomes == {"ok", "rejected", "timeout", "badrequest"}
NoRdRet == [op |-> "none", err |-> ErrNone, sent |-> {}, answered |-> {}]

RdInit ==
    /\ rdPc = "idle"
    /\ rdCfg = [nodes |-> <<>>, replicaCount |-> 1]
    /\ rdRunning = [n \in Peers |-> "none"]
    /\ rdErrors = <<>>
    /\ rdLog = <<>>
    /\ rdRet = NoRdRet

rdRest == <<replVars, gateVars, walVars, casVars, ttlVars, compVars, bloomVars,
    cacheVars, vcVars, rbVars, mkVars, atomVars, batVars,
    hVars,
    fmVars,
    cmVars,
    unVars>>

\* the goroutines the loop starts: replicated stays 0, so the loop breaks only
\* when replicaCount is 0 or less
RdTargets(nodeList, replicaCount) ==
    IF 0 >= replicaCount THEN {} ELSE {nodeList[i] : i \in 1..Len(nodeList)}

\* mutant: ReplicateDelete waits for the peers and reports like ReplicateSet
ReplicateDelete_Wait(nodeList, replicaCount, outcomes) ==
    /\ rdPc = "idle"
    /\ rdRet.op = "none"
    /\ LET sent == RdTargets(nodeList, replicaCount)
           good == Cardinality({n \in sent : outcomes[n] = "ok"})
       IN  /\ rdRet' = [op |-> "delete",
                        err |-> IF Len(nodeList) = 0 \/ good >= replicaCount
                                THEN ErrNone ELSE "replications failed",
                        sent |-> sent, answered |-> sent]
           /\ rdErrors' = <<>>
           /\ rdRunning' = [n \in Peers |-> "none"]
    /\ rdCfg' = [nodes |-> nodeList, replicaCount |-> replicaCount]
    /\ rdPc' = "done"
    /\ UNCHANGED rdLog
    /\ UNCHANGED rdRest

\* Replicator.ReplicateDelete(key): copy the nodes, start the goroutines and
\* the collector, return nil
ReplicateDelete(nodeList, replicaCount, outcomes) ==
    /\ rdPc = "idle"
    /\ rdRet.op = "none"
    /\ LET sent == RdTargets(nodeList, replicaCount)
       IN  /\ rdRunning' = [n \in Peers |-> IF Len(nodeList) > 0 /\ n \in sent
                                            THEN outcomes[n] ELSE "none"]
           /\ rdRet' = [op |-> "delete", err |-> ErrNone,
                        sent |-> IF Len(nodeList) > 0 THEN sent ELSE {},
                        answered |-> {}]
    /\ rdCfg' = [nodes |-> nodeList, replicaCount |-> replicaCount]
    /\ rdErrors' = <<>>
    /\ rdPc' = IF Len(nodeList) = 0 THEN "done" ELSE "collect"
    /\ UNCHANGED rdLog
    /\ UNCHANGED rdRest

\* one goroutine of the loop ends: errors <- (nil or the failure)
RdPeerDone(n) ==
    /\ rdRunning[n] # "none"
    /\ rdErrors' = Append(rdErrors, [node |-> n, outcome |-> rdRunning[n]])
    /\ rdRunning' = [rdRunning EXCEPT ![n] = "none"]
    /\ UNCHANGED <<rdPc, rdCfg, rdLog, rdRet>>
    /\ UNCHANGED rdRest

\* the collector's loop over the closed channel: warnings until successful
\* reaches replicaCount or len(nodes) receives were made
RECURSIVE RdDrain(_, _, _, _, _)
RdDrain(ch, i, limit, successful, log) ==
    IF i >= limit \/ successful >= rdCfg.replicaCount
    THEN [successful |-> successful, log |-> log]
    ELSE IF ch = <<>>
         THEN RdDrain(ch, i + 1, limit, successful, log)
         ELSE IF Head(ch).outcome = "ok"
              THEN RdDrain(Tail(ch), i + 1, limit, successful + 1, log)
              ELSE RdDrain(Tail(ch), i + 1, limit, successful,
                           Append(log, [line |-> "warning", node |-> Head(ch).node]))

\* the collector goroutine: wg.Wait(), close(errors), drain, final line
RdCollect ==
    /\ rdPc = "collect"
    /\ \A n \in Peers : rdRunning[n] = "none"
    /\ LET d == RdDrain(rdErrors, 0, Len(rdCfg.nodes), 0, rdLog)
       IN  rdLog' = IF d.successful < rdCfg.replicaCount
                    THEN Append(d.log, [line |-> "failed", node |-> ""])
                    ELSE d.log
    /\ rdErrors' = <<>>
    /\ rdPc' = "done"
    /\ UNCHANGED <<rdCfg, rdRunning, rdRet>>
    /\ UNCHANGED rdRest

RdNext ==
    \/ \E l \in RdNodeLists, c \in RdReplicaCounts, o \in [Peers -> PeerOutcomes] :
          ReplicateDelete(l, c, o)
    \/ \E n \in Peers : RdPeerDone(n)
    \/ RdCollect

(***************************************************************************)
(* The client handlers' error paths (src/api/handlers.go): the store below  *)
(* the handler may fail, the replicator runs in a goroutine of its own and  *)
(* may fail too.                                                            *)
(***************************************************************************)
StatusBadRequest          == 400
StatusInternalServerError == 500

HKeys == {"", "k"}
HValues == {"v1", "v2"}
\* what h.storage.Set / Delete returns: nil, ErrKeyNotFound, another error
StoreErrs == {ErrNone, ErrKeyNotFound, "store failed"}
NoHResp == [id |-> 0, op |-> "none", key |-> "", value |-> "", status |-> 0,
            storeErr |-> ErrNone, after |-> NoValue]
NoHRepl == [id |-> 0, op |-> "none", err |-> ErrNone,
            before |-> NoValue, after |-> NoValue]

HandlerInit ==
    /\ hStore = NoValue
    /\ hSpawned = {}
    /\ hCalls = {}
    /\ hFailed = {}
    /\ hResp = NoHResp
    /\ hRepl = NoHRepl

hRest == <<replVars, gateVars, walVars, casVars, ttlVars, compVars, bloomVars,
    cacheVars, vcVars, rbVars, mkVars, atomVars, batVars, rdVars,
    fmVars,
    cmVars,
    unVars>>

\* Handlers.SetHandler: 400 without a key; storage.Set, 500 when it fails
\* (what a failed Set left in the store is the store's business); else the
\* replication goroutine is started and 201 is answered
HSetHandler(key, value, err, wrote) ==
    /\ hResp.id < MaxReqs
    /\ err # ErrNone \/ wrote
    /\ LET id == hResp.id + 1
       IN  IF key = ""
           THEN /\ hResp' = [id |-> id, op |-> "set", key |-> key, value |-> value,
                             status |-> StatusBadRequest, storeErr |-> ErrNone,
                             after |-> hStore]
                /\ UNCHANGED <<hStore, hSpawned, hFailed>>
           ELSE /\ hStore' = IF wrote THEN value ELSE hStore
                /\ hSpawned' = IF err = ErrNone
                               THEN hSpawned \cup {[id |-> id, op |-> "set", value |-> value]}
                               ELSE hSpawned
                /\ hFailed' = IF err = ErrNone THEN hFailed ELSE hFailed \cup {id}
                /\ hResp' = [id |-> id, op |-> "set", key |-> key, value |-> value,
                             status |-> IF err = ErrNone THEN StatusCreated
                                        ELSE StatusInternalServerError,
                             storeErr |-> err, after |-> hStore']
    /\ UNCHANGED <<hCalls, hRepl>>
    /\ UNCHANGED hRest

\* Handlers.DeleteHandler: storage.Delete, 404 on ErrKeyNotFound, 500 on another
\* error; else the replication goroutine is started and 200 is answered
HDeleteHandler(key, failure) ==
    /\ hResp.id < MaxReqs
    /\ LET id  == hResp.id + 1
           err == IF failure THEN "store failed"
                  ELSE IF key = "" \/ hStore = NoValue THEN ErrKeyNotFound
                  ELSE ErrNone
       IN  /\ hStore' = IF err = ErrNone THEN NoValue ELSE hStore
           /\ hSpawned' = IF err = ErrNone
                          THEN hSpawned \cup {[id |-> id, op |-> "delete", value |-> ""]}
                          ELSE hSpawned
           /\ hFailed' = IF err = ErrNone THEN hFailed ELSE hFailed \cup {id}
           /\ hResp' = [id |-> id, op |-> "delete", key |-> key, value |-> "",
                        status |-> IF err = ErrNone THEN StatusOK
                                   ELSE IF err = ErrKeyNotFound THEN StatusNotFound
                                   ELSE StatusInternalServerError,
                        storeErr |-> err, after |-> hStore']
    /\ UNCHANGED <<hCalls, hRepl>>
    /\ UNCHANGED hRest

\* mutant: a failed replication takes the value out of the local store again
HReplicate_Rollback(g, err) ==
    /\ g \in hSpawned
    /\ hSpawned' = hSpawned \ {g}
    /\ hCalls' = hCalls \cup {g.id}
    /\ hStore' = IF err # ErrNone /\ g.op = "set" THEN NoValue ELSE hStore
    /\ hRepl' = [id |-> g.id, op |-> g.op, err |-> err,
                 before |-> hStore, after |-> hStore']
    /\ UNCHANGED <<hFailed, hResp>>
    /\ UNCHANGED hRest

\* the handler's goroutine: h.replicator.ReplicateSet / ReplicateDelete, an
\* error is logged
HReplicate(g, err) ==
    /\ g \in hSpawned
    /\ hSpawned' = hSpawned \ {g}
    /\ hCalls' = hCalls \cup {g.id}
    /\ hRepl' = [id |-> g.id, op |-> g.op, err |-> err,
                 before |-> hStore, after |-> hStore]
    /\ UNCHANGED <<hStore, hFailed, hResp>>
    /\ UNCHANGED hRest

HandlerNext ==
    \/ \E k \in HKeys, v \in HValues, e \in StoreErrs \ {ErrKeyNotFound}, w \in BOOLEAN :
          HSetHandler(k, v, e, w)
    \/ \E k \in HKeys, f \in BOOLEAN : HDeleteHandler(k, f)
    \/ \E g \in hSpawned, e \in {ErrNone, "replication failed"} : HReplicate(g, e)

(***************************************************************************)
(* Failover monitor (src/cluster/failover.go).  A round of checkAllNodes    *)
(* takes a snapshot of the list and starts one probe per entry; a probe     *)
(* ends in updateNodeStatus under fm.mu; the next round starts when all     *)
(* probes of the round are over.  AddNode, RemoveNode and SetNodes come     *)
(* from the admin handlers at any time.                                     *)
(***************************************************************************)
FmPeers == {"p1", "p2"}
FmLists == {<<>>, <<"p1">>, <<"p2">>, <<"p1", "p2">>, <<"p2", "p1">>, <<"p1", "p1">>}
\* what GET /health gives within the timeout: 200, another status, nothing
ProbeOutcomes == {"200", "503", "timeout"}
NoStatus == [present |-> FALSE, Online |-> FALSE]
NewStatus == [present |-> TRUE, Online |-> TRUE]
Listed(list) == {list[i] : i \in 1..Len(list)}
NoFmOp == [op |-> "none", before |-> [n \in FmPeers |-> NoStatus],
           after |-> [n \in FmPeers |-> NoStatus], kept |-> {}, removed |-> {}]

\* NewFailoverManager([]string{}, checkInterval, timeout)
FmInit ==
    /\ fmNodes = <<>>
    /\ nodeStatus = [n \in FmPeers |-> NoStatus]
    /\ fmProbes = [n \in FmPeers |-> 0]
    /\ fmRounds = 0
    /\ fmLast = [n \in FmPeers |-> "none"]
    /\ fmPanic = FALSE
    /\ fmOp = NoFmOp

fmRest == <<replVars, gateVars, walVars, casVars, ttlVars, compVars, bloomVars,
    cacheVars, vcVars, rbVars, mkVars, atomVars, batVars, rdVars, hVars,
    cmVars,
    unVars>>

\* FailoverManager.GetActiveNodes
GetActiveNodes == {n \in FmPeers : nodeStatus[n].present /\ nodeStatus[n].Online}

\* the history of one membership call
FmOpRecord(op, newStatus, newList) ==
    [op |-> op, before |-> nodeStatus, after |-> newStatus,
     kept |-> Listed(fmNodes) \cap Listed(newList),
     removed |-> Listed(fmNodes) \ Listed(newList)]

\* FailoverManager.SetNodes(nodes)
SetNodes(list) ==
    /\ ~fmPanic
    /\ list # fmNodes
    /\ fmNodes' = list
    /\ nodeStatus' = [n \in FmPeers |->
                        IF n \in Listed(list)
                        THEN IF nodeStatus[n].present THEN nodeStatus[n] ELSE NewStatus
                        ELSE NoStatus]
    /\ fmOp' = FmOpRecord("set", nodeStatus', list)
    /\ UNCHANGED <<fmProbes, fmRounds, fmLast, fmPanic>>
    /\ UNCHANGED fmRest

\* FailoverManager.AddNode(node)
AddNode(node) ==
    /\ ~fmPanic
    /\ node \notin Listed(fmNodes)
    /\ fmNodes' = Append(fmNodes, node)
    /\ nodeStatus' = IF nodeStatus[node].present THEN nodeStatus
                     ELSE [nodeStatus EXCEPT ![node] = NewStatus]
    /\ fmOp' = FmOpRecord("add", nodeStatus', fmNodes')
    /\ UNCHANGED <<fmProbes, fmRounds, fmLast, fmPanic>>
    /\ UNCHANGED fmRest

\* FailoverManager.RemoveNode(node)
RemoveNode(node) ==
    /\ ~fmPanic
    /\ node \in Listed(fmNodes)
    /\ fmNodes' = SelectSeq(fmNodes, LAMBDA n : n # node)
    /\ nodeStatus' = [nodeStatus EXCEPT ![node] = NoStatus]
    /\ fmOp' = FmOpRecord("remove", nodeStatus', fmNodes')
    /\ UNCHANGED <<fmProbes, fmRounds, fmLast, fmPanic>>
    /\ UNCHANGED fmRest

\* FailoverManager.checkAllNodes: the snapshot and one goroutine per entry
checkAllNodes ==
    /\ ~fmPanic
    /\ fmRounds < MaxRounds
    /\ \A n \in FmPeers : fmProbes[n] = 0
    /\ fmNodes # <<>>
    /\ fmProbes' = [n \in FmPeers |->
                      Cardinality({i \in 1..Len(fmNodes) : fmNodes[i] = n})]
    /\ fmRounds' = fmRounds + 1
    /\ UNCHANGED <<fmNodes, nodeStatus, fmLast, fmPanic, fmOp>>
    /\ UNCHANGED fmRest

\* FailoverManager.checkNode and updateNodeStatus: status := fm.nodeStatus[url]
\* is nil for a node removed in the meantime, and status.Online = online then
\* panics, which ends the process
checkNode(nodeURL, outcome) ==
    /\ ~fmPanic
    /\ fmProbes[nodeURL] > 0
    /\ fmProbes' = [fmProbes EXCEPT ![nodeURL] = @ - 1]
    /\ IF nodeStatus[nodeURL].present
       THEN /\ nodeStatus' = [nodeStatus EXCEPT ![nodeURL].Online = (outcome = "200")]
            /\ fmLast' = [fmLast EXCEPT ![nodeURL] = outcome]
            /\ UNCHANGED fmPanic
       ELSE /\ fmPanic' = TRUE
            /\ UNCHANGED <<nodeStatus, fmLast>>
    /\ UNCHANGED <<fmNodes, fmRounds, fmOp>>
    /\ UNCHANGED fmRest

FailoverNext ==
    \/ \E l \in FmLists : SetNodes(l)
    \/ \E n \in FmPeers : AddNode(n)
    \/ \E n \in FmPeers : RemoveNode(n)
    \/ checkAllNodes
    \/ \E n \in FmPeers, o \in ProbeOutcomes : checkNode(n, o)

(***************************************************************************)
(* ConsistencyManager with the clock (src/replication/consistency.go).      *)
(* Time is counted in ticks; the 5 seconds of EnsureReadYourWrites are      *)
(* stickyWindow ticks.  A session is the time of its last activity, or      *)
(* NoSession.                                                               *)
(***************************************************************************)
stickyWindow == 2
NoSession == -1
CmClients == {"c1", "c2"}
CmNodes == {"n1", "n2"}
MaxAges == 0..MaxCmNow
MaxUpdates == 2     \* calls of UpdateNodes in one run
NoCmRet == [op |-> "none", client |-> "", age |-> NoSession, preferred |-> NoNode,
            last |-> NoNode,
            before |-> [c \in CmClients |-> NoSession],
            after |-> [c \in CmClients |-> NoSession], now |-> 0, maxAge |-> 0]

\* NewConsistencyManager()
CmInit ==
    /\ cmNow = 0
    /\ cmWrites = [k \in Keys |-> NoWrite]
    /\ cmSessions = [c \in CmClients |-> NoSession]
    /\ cmLastNode = [k \in Keys |-> NoNode]
    /\ cmRet = NoCmRet

cmRest == <<replVars, gateVars, walVars, casVars, ttlVars, compVars, bloomVars,
    cacheVars, vcVars, rbVars, mkVars, atomVars, batVars, rdVars, hVars, fmVars,
    unVars>>

\* time passes
CmTick ==
    /\ cmNow < MaxCmNow
    /\ cmNow' = cmNow + 1
    /\ UNCHANGED <<cmWrites, cmSessions, cmLastNode, cmRet>>
    /\ UNCHANGED cmRest

\* ConsistencyManager.RecordWrite(key, nodeID)
CmRecordWrite(key, nodeID) ==
    /\ cmWrites' = RecordWrite(cmWrites, key, nodeID)
    /\ cmLastNode' = [cmLastNode EXCEPT ![key] = nodeID]
    /\ UNCHANGED <<cmNow, cmSessions, cmRet>>
    /\ UNCHANGED cmRest

\* ConsistencyManager.UpdateClientSession(clientID)
CmUpdateClientSession(clientID) ==
    /\ cmSessions' = [cmSessions EXCEPT ![clientID] = cmNow]
    /\ UNCHANGED <<cmNow, cmWrites, cmLastNode, cmRet>>
    /\ UNCHANGED cmRest

\* mutant: a session of exactly the window's age still counts
preferredNodeAt_Inclusive(sessions, lwt, now, clientID, key) ==
    LET hasSession == sessions[clientID] # NoSession
        hasWrite   == lwt[key].present
    IN  IF hasSession /\ hasWrite /\ now - sessions[clientID] <= stickyWindow
        THEN lwt[key].NodeID
        ELSE NoNode

\* ConsistencyManager.EnsureReadYourWrites: the preferred node
preferredNodeAt(sessions, lwt, now, clientID, key) ==
    LET hasSession == sessions[clientID] # NoSession
        hasWrite   == lwt[key].present
    IN  IF hasSession /\ hasWrite /\ now - sessions[clientID] < stickyWindow
        THEN lwt[key].NodeID
        ELSE NoNode

\* ConsistencyManager.EnsureReadYourWrites(clientID, key)
CmEnsureReadYourWrites(clientID, key) ==
    /\ cmRet' = [NoCmRet EXCEPT
                   !.op = "ensure", !.client = clientID,
                   !.last = cmLastNode[key],
                   !.age = IF cmSessions[clientID] = NoSession THEN NoSession
                           ELSE cmNow - cmSessions[clientID],
                   !.preferred = preferredNodeAt(cmSessions, cmWrites, cmNow,
                                                 clientID, key)]
    /\ UNCHANGED <<cmNow, cmWrites, cmSessions, cmLastNode>>
    /\ UNCHANGED cmRest

\* ConsistencyManager.CleanupOldSessions(maxAge)
CleanupOldSessions(maxAge) ==
    /\ cmSessions' = [c \in CmClients |->
                        IF cmSessions[c] # NoSession /\ cmNow - cmSessions[c] > maxAge
                        THEN NoSession ELSE cmSessions[c]]
    /\ cmRet' = [NoCmRet EXCEPT !.op = "cleanup", !.before = cmSessions,
                                !.after = cmSessions',
                                !.now = cmNow, !.maxAge = maxAge]
    /\ UNCHANGED <<cmNow, cmWrites, cmLastNode>>
    /\ UNCHANGED cmRest

CmNext ==
    \/ CmTick
    \/ \E k \in Keys, n \in CmNodes : CmRecordWrite(k, n)
    \/ \E c \in CmClients : CmUpdateClientSession(c)
    \/ \E c \in CmClients, k \in Keys : CmEnsureReadYourWrites(c, k)
    \/ \E a \in MaxAges : CleanupOldSessions(a)

(***************************************************************************)
(* Replicator.UpdateNodes against the fan-outs (replication.go).            *)
(* UpdateNodes allocates a new slice, publishes it in r.nodes and then      *)
(* copies into it, all under r.mu.  replicateSetWithQuorum and              *)
(* readWithQuorum range over r.nodes without the lock: the slice is taken   *)
(* once, its elements are read as the loop reaches them.  ReplicateDelete   *)
(* copies r.nodes under the read lock.  A slice is kept by its generation:  *)
(* unArr[g] is the array published by the g-th UpdateNodes.                 *)
(***************************************************************************)
UnLists == {<<"n1">>, <<"n1", "n2">>, <<"n3", "n2">>}
UnGens == 0..MaxUpdates
UnIdle == [at |-> "idle", op |-> "none", gen |-> 0, seen |-> <<>>]
NoUnRet == [op |-> "none", seen |-> <<>>]

\* NewReplicator(NodeList, replicaCount)
UnInit ==
    /\ unArr = [g \in UnGens |-> IF g = 0 THEN NodeList ELSE <<>>]
    /\ unGen = 0
    /\ unQuorum = NewReplicator(NodeList)
    /\ unCopy = [at |-> "idle", src |-> <<>>, n |-> 0]
    /\ unFan = UnIdle
    /\ unInstalled = {NodeList}
    /\ unRet = NoUnRet

unRest == <<replVars, gateVars, walVars, casVars, ttlVars, compVars, bloomVars,
    cacheVars, vcVars, rbVars, mkVars, atomVars, batVars, rdVars, hVars, fmVars, cmVars>>

\* r.nodes
unNodes == unArr[unGen]

\* UpdateNodes: r.mu.Lock(); r.nodes = make([]string, len(newNodes))
UpdateNodesMake(newNodes) ==
    /\ unCopy.at = "idle"
    /\ unGen < MaxUpdates
    /\ unGen' = unGen + 1
    /\ unArr' = [unArr EXCEPT ![unGen + 1] = [i \in 1..Len(newNodes) |-> ""]]
    /\ unCopy' = [at |-> "copy", src |-> newNodes, n |-> 0]
    /\ unInstalled' = unInstalled \cup {newNodes}
    /\ UNCHANGED <<unQuorum, unFan, unRet>>
    /\ UNCHANGED unRest

\* UpdateNodes: copy(r.nodes, newNodes), one element
UpdateNodesCopy ==
    /\ unCopy.at = "copy"
    /\ unCopy.n < Len(unCopy.src)
    /\ unArr' = [unArr EXCEPT ![unGen][unCopy.n + 1] = unCopy.src[unCopy.n + 1]]
    /\ unCopy' = [unCopy EXCEPT !.n = @ + 1]
    /\ UNCHANGED <<unGen, unQuorum, unFan, unInstalled, unRet>>
    /\ UNCHANGED unRest

\* UpdateNodes: the replicaCount clamp and the deferred Unlock; quorumConfig
\* is not written
UpdateNodesUnlock ==
    /\ unCopy.at = "copy"
    /\ unCopy.n = Len(unCopy.src)
    /\ unCopy' = [at |-> "idle", src |-> <<>>, n |-> 0]
    /\ UNCHANGED <<unArr, unGen, unQuorum, unFan, unInstalled, unRet>>
    /\ UNCHANGED unRest

\* replicateSetWithQuorum / readWithQuorum: for _, node := range r.nodes
FanOutRange(op) ==
    /\ unFan.at = "idle"
    /\ unFan' = [at |-> "loop", op |-> op, gen |-> unGen, seen |-> <<>>]
    /\ UNCHANGED <<unArr, unGen, unQuorum, unCopy, unInstalled, unRet>>
    /\ UNCHANGED unRest

\* the loop reads its next element from the slice it took
FanOutNode ==
    /\ unFan.at = "loop"
    /\ Len(unFan.seen) < Len(unArr[unFan.gen])
    /\ unFan' = [unFan EXCEPT !.seen = Append(@, unArr[unFan.gen][Len(@) + 1])]
    /\ UNCHANGED <<unArr, unGen, unQuorum, unCopy, unInstalled, unRet>>
    /\ UNCHANGED unRest

\* the loop is over
FanOutDone ==
    /\ unFan.at = "loop"
    /\ Len(unFan.seen) = Len(unArr[unFan.gen])
    /\ unRet' = [op |-> unFan.op, seen |-> unFan.seen]
    /\ unFan' = UnIdle
    /\ UNCHANGED <<unArr, unGen, unQuorum, unCopy, unInstalled>>
    /\ UNCHANGED unRest

\* ReplicateDelete: r.mu.RLock(); copy(nodes, r.nodes); r.mu.RUnlock()
FanOutDelete ==
    /\ unFan.at = "idle"
    /\ unCopy.at = "idle"
    /\ unRet' = [op |-> "delete", seen |-> unNodes]
    /\ UNCHANGED <<unArr, unGen, unQuorum, unCopy, unFan, unInstalled>>
    /\ UNCHANGED unRest

UpdNext ==
    \/ \E l \in UnLists : UpdateNodesMake(l)
    \/ UpdateNodesCopy
    \/ UpdateNodesUnlock
    \/ \E op \in {"set", "read"} : FanOutRange(op)
    \/ FanOutNode
    \/ FanOutDone
    \/ FanOutDelete

(***************************************************************************)
(* Specifications.                                                         *)
(***************************************************************************)
LayerInit == CasInit /\ TtlInit /\ CompInit /\ BloomInit /\ CacheInit /\ VcInit
    /\ RbInit
    /\ MerkleInit
    /\ AtomInit
    /\ BatchInit
    /\ RdInit
    /\ HandlerInit
    /\ FmInit
    /\ CmInit
    /\ UnInit

Init == ReplInit /\ GateInit /\ WalInit /\ LayerInit

\* direct call of HintedHandoff.StoreHint(key, value, node)
StoreHintCall(key, value, node) ==
    /\ clock < MaxClock
    /\ LET hh == StoreHint([hints |-> hints, file |-> hintsFile],
                           key, value, node, clock + 1)
       IN  /\ hints' = hh.hints
           /\ hintsFile' = hh.file
    /\ clock' = clock + 1
    /\ ret' = [NoRet EXCEPT !.op = "hint", !.key = key, !.value = value]
    /\ UNCHANGED <<nodes, quorumConfig, peerData, attemptsMade, passes,
                   lastWriteTimestamps, clientSessions, lastSet>>
    /\ UNCHANGED <<gateVars, walVars, layerVars>>

\* the process restarts: NewHintedHandoff on the same directory
HintsRestart ==
    /\ hints' = NewHintedHandoff(hintsFile)
    /\ ret' = [NoRet EXCEPT !.op = "restart"]
    /\ UNCHANGED <<nodes, quorumConfig, peerData, hintsFile, clock, attemptsMade,
                   passes, lastWriteTimestamps, clientSessions, lastSet>>
    /\ UNCHANGED <<gateVars, walVars, layerVars>>

WriteNext ==
    \/ \E k \in Keys, v \in Values, up \in SUBSET Peers : ReplicateSet(k, v, up)
    \/ \E ok \in [1..Len(hints) -> BOOLEAN] : BoundedRetryPass(ok)

SpecWrite == Init /\ [][WriteNext]_vars

ReplNext ==
    \/ \E k \in Keys, v \in Values, up \in SUBSET Peers : ReplicateSet(k, v, up)
    \/ \E wq \in 2..(Len(nodes) + 1), k \in Keys, v \in Values, up \in SUBSET Peers :
         \E n \in RacyCount(Cardinality(Range(nodes) \cap up)) \cup {0} :
            QuorumReplicateSet(wq, k, v, up, n)

SpecRepl == Init /\ [][ReplNext]_vars

ReadNext ==
    \/ \E k \in Keys, v \in Values, up \in SUBSET Peers :
         ReplicateSet(k, v, up) /\ clock' <= MaxReadHints
    \/ \E ok \in [1..Len(hints) -> BOOLEAN] : BoundedRetryPass(ok)
    \/ \E c \in Clients : UpdateClientSession(c)
    \/ \E c \in Clients : SessionAges(c)
    \/ \E k \in Keys, c \in Clients, up \in SUBSET Peers :
         \E order \in Perms(Responders(nodes, peerData, k, up)) :
            Read(k, c, up, order)

SpecRead == Init /\ [][ReadNext]_vars

HintsNext ==
    \/ \E k \in Keys, v \in Values, n \in HintPeers : StoreHintCall(k, v, n)
    \/ \E ok \in [1..Len(hints) -> BOOLEAN] : RetryPass(ok) /\ UNCHANGED passes
    \/ HintsRestart

SpecHints == Init /\ [][HintsNext]_vars

GateNext ==
    \/ \E q \in 0..MaxActive : NewReadOnlyManager(q)
    \/ \E a \in 0..MaxActive : UpdateNodeCount(a)
    \/ \E k \in Keys, v \in Values : SetHandler(k, v)
    \/ \E k \in Keys : DeleteHandler(k)
    \/ \E k \in Keys : GetHandler(k)

SpecGate == Init /\ [][GateNext]_vars

WalNext ==
    \/ \E g \in Callers, k \in Keys, v \in WalValues, w \in BOOLEAN : WalSetLog(g, k, v, w)
    \/ \E g \in Callers, k \in Keys, w \in BOOLEAN : WalDeleteLog(g, k, w)
    \/ \E g \in Callers : WalApply(g)
    \/ WalRestart

SpecWAL == Init /\ [][WalNext]_vars

CasNext ==
    \/ CasTick
    \/ \E v \in CasValues : CasSet(CasKey, v)
    \/ CasDelete(CasKey)
    \/ \E e \in CasValues, n \in CasValues, ev \in 0..MaxNow, ok \in BOOLEAN :
         CasCompareAndSet(CasKey, e, n, ev, ok)

SpecCAS == Init /\ [][CasNext]_vars

LockNext ==
    \/ CasTick
    \/ \E g \in Callers, t \in LockTtls : AcqStart(g, t)
    \/ \E g \in Callers : AcqGet(g)
    \/ \E g \in Callers : AcqReclaim(g)
    \/ \E g \in Callers : ReleaseLock(g)

SpecLock == Init /\ [][LockNext]_vars

TtlNext ==
    \/ TtlTick
    \/ \E k \in TtlKeys, v \in Values, d \in TtlDurations : SetWithTTL(k, v, d)
    \/ \E g \in Callers, k \in TtlKeys : TtlGetStart(g, k)
    \/ \E g \in Callers : TtlGetDelete(g)
    \/ \E k \in TtlKeys : TtlDelete(k)
    \/ cleanupExpired

SpecTTL == Init /\ [][TtlNext]_vars

CompNext ==
    \/ \E ct \in CompressionTypes, th \in Thresholds : NewCompressedStorage(ct, th)
    \/ \E k \in CompKeys, v \in BytesUpTo(MaxValLen) : CompSet(k, v)
    \/ \E k \in CompKeys : CompGet(k)

SpecComp == Init /\ [][CompNext]_vars

BloomNext ==
    \/ NewOptimizedStorage
    \/ \E g \in Callers, k \in BloomKeys : OptSetStore(g, k)
    \/ \E g \in Callers : OptSetAdd(g)
    \/ \E g \in Callers, k \in BloomKeys : OptDelete(g, k)
    \/ \E g \in Callers, k \in BloomKeys : OptGetWrite(g, k)
    \/ \E g \in Callers : OptGetSum(g)

SpecBloom == Init /\ [][BloomNext]_vars

CacheNext ==
    \/ CacheTick
    \/ \E g \in Callers, k \in CacheKeys : CacheGetLookup(g, k)
    \/ \E g \in Callers : CacheGetExpire(g)
    \/ \E g \in Callers : CacheGetFront(g)
    \/ \E g \in Callers : CacheGetHit(g)
    \/ \E g \in Callers : CacheGetBase(g)
    \/ \E g \in Callers : CacheGetFill(g)
    \/ \E g \in Callers, k \in CacheKeys, v \in CacheValues : CacheSetBase(g, k, v)
    \/ \E g \in Callers : CacheSetCache(g)
    \/ \E g \in Callers, k \in CacheKeys : CacheDeleteCache(g, k)
    \/ \E g \in Callers : CacheDeleteBase(g)
    \/ \E k \in CacheKeys : PreloadKeys(k)

SpecCache == Init /\ [][CacheNext]_vars

VcNext == ReceiveVersions \/ ResolvePair \/ ResolveFold

SpecVC == Init /\ [][VcNext]_vars

SpecRebal == Init /\ [][RebalNext]_vars

SpecMerkle == Init /\ [][MerkleNext]_vars

SpecAtomic == Init /\ [][AtomNext]_vars

SpecBatch == Init /\ [][BatchNext]_vars

SpecRDel == Init /\ [][RdNext]_vars

SpecHandler == Init /\ [][HandlerNext]_vars

SpecFailover == Init /\ [][FailoverNext]_vars

SpecSession == Init /\ [][CmNext]_vars

SpecUpdate == Init /\ [][UpdNext]_vars

\* the values of the concurrent Sets of one key
CohValues == {"v1", "v2"}

\* CacheStorage.Set and CacheStorage.Get of two callers, no Delete
CohNext ==
    \/ CacheTick
    \/ \E g \in Callers, k \in CacheKeys : CacheGetLookup(g, k)
    \/ \E g \in Callers : CacheGetExpire(g)
    \/ \E g \in Callers : CacheGetFront(g)
    \/ \E g \in Callers : CacheGetHit(g)
    \/ \E g \in Callers : CacheGetBase(g)
    \/ \E g \in Callers : CacheGetFill(g)
    \/ \E g \in Callers, k \in CacheKeys, v \in CohValues : CacheSetBase(g, k, v)
    \/ \E g \in Callers : CacheSetCache(g)

SpecCoherence == Init /\ [][CohNext]_vars

SpecRebalWrites == Init /\ [][RebalWriteNext]_vars

Next == WriteNext \/ ReplNext \/ ReadNext \/ HintsNext \/ GateNext \/ WalNext
          \/ CasNext \/ LockNext \/ TtlNext \/ CompNext \/ BloomNext \/ CacheNext \/ VcNext
          \/ RebalNext
          \/ MerkleNext
          \/ AtomNext
          \/ BatchNext
          \/ RdNext
          \/ HandlerNext
          \/ FailoverNext
          \/ CmNext
          \/ UpdNext

Spec == Init /\ [][Next]_vars

(***************************************************************************)
(* Claims.                                                                 *)
(***************************************************************************)

\* C1: a quorum write (Replicator.ReplicateSet on more than one peer, or
\* QuorumReplicator.ReplicateSetWithQuorum) returns success if and only if at
\* least writeQuorum peers acknowledged the write, and every failure is a
\* quorum error.
C1_SuccessIffQuorumAcked ==
    ret.op \in {"set", "qset"} =>
        /\ (ret.err = ErrNone) <=> (Cardinality(ret.acked) >= ret.quorum)
        /\ ret.err \in {ErrNone, ErrWriteQuorum, ErrQuorumExceeds}

\* C1, the sequential path alone: Replicator.replicateSetWithQuorum counts
\* its acknowledgements in one goroutine and satisfies the claim.
C1_SequentialPathHolds ==
    ret.op = "set" =>
        /\ (ret.err = ErrNone) <=> (Cardinality(ret.acked) >= ret.quorum)
        /\ ret.err \in {ErrNone, ErrWriteQuorum}

\* C2: during replicateSet(k, v) every peer whose call failed gets exactly one
\* hint {k, v, peer, attempts 0} appended to the queue, in call order, and no
\* hint is appended for a peer that acknowledged.
C2_HintPerFailedPeer ==
    [][ret'.op = "set" =>
         LET n   == Len(hints)
             f   == ret'.failed
         IN  /\ Len(hints') = n + Len(f)
             /\ SubSeq(hints', 1, n) = hints
             /\ \A i, j \in 1..Len(f) : f[i] = f[j] => i = j
             /\ \A i \in 1..Len(f) :
                    /\ hints'[n + i].Key = ret'.key
                    /\ hints'[n + i].Value = ret'.value
                    /\ hints'[n + i].Node = f[i]
                    /\ hints'[n + i].Attempts = 0
                    /\ f[i] \notin ret'.acked
             /\ Range(f) \cup ret'.acked \subseteq Range(nodes)
    ]_vars

\* C2 witness: a write in which one peer failed and another acknowledged.
C2_Witness ==
    /\ ret.op = "set"
    /\ Len(ret.failed) >= 1
    /\ ret.acked # {}
    /\ \E i \in 1..Len(hints) : hints[i].Node = ret.failed[1] /\ hints[i].Attempts = 0

\* C3: after replicateSet(k, v) returned success, every peer of the list has
\* stored (k, v) directly or has a hint for (k, v) queued for it.
C3_EveryPeerStoredOrHinted ==
    (ret.op = "set" /\ ret.err = ErrNone) =>
        \A p \in Range(nodes) :
            \/ p \in ret.acked
            \/ \E i \in 1..Len(hints) :
                 /\ hints[i].Node = p
                 /\ hints[i].Key = ret.key
                 /\ hints[i].Value = ret.value

\* C4: when no preferred peer answers, getWithConsistency returns a value v
\* only if at least readQuorum of the peers that responded hold exactly v, and
\* returns the read-quorum error in every other case.
C4_ReadNeedsQuorum ==
    (ret.op = "get" /\ ~ret.fromPreferred) =>
        LET cnt(v) == Cardinality({p \in ret.answered : peerData[p][ret.key] = v})
        IN  /\ ret.err = ErrNone =>
                 /\ ret.value \in Values
                 /\ cnt(ret.value) >= quorumConfig.ReadQuorum
            /\ ret.err # ErrNone =>
                 /\ ret.err = ErrReadQuorum
                 /\ \A v \in Values : cnt(v) < quorumConfig.ReadQuorum

\* C4 witness: a quorum read that returned a value although one responder
\* held another value.
C4_Witness ==
    /\ ret.op = "get"
    /\ ~ret.fromPreferred
    /\ ret.err = ErrNone
    /\ \E p \in ret.answered : peerData[p][ret.key] # ret.value

\* C5: after replicateSet(k, v) returned success and with no later write to
\* k, every getWithConsistency(k, client) returns v or an error.
C5_ReadYourWrites ==
    (ret.op = "get" /\ lastSet[ret.key].written /\ lastSet[ret.key].ok
        /\ ret.err = ErrNone) =>
        ret.value = lastSet[ret.key].value

\* C6: a client set or delete arriving while the gate is read-only leaves the
\* local store unchanged.
C6_ReadOnlyRejectsWrites ==
    [][(resp'.op \in {"set", "delete"} /\ isReadOnly) => storage' = storage]_vars

C8_LeaveStep ==
    /\ \A i \in 1..Len(hints) :
         LET h == hints[i]
         IN  (~\E j \in 1..Len(hints') : hints'[j].Timestamp = h.Timestamp) =>
                \/ h.Attempts >= maxAttempts
                \/ /\ attemptsMade'[h.Timestamp] = attemptsMade[h.Timestamp] + 1
                   /\ \E g \in Range(hints) :
                        /\ g.Node = h.Node
                        /\ g.Key = h.Key
                        /\ peerData'[h.Node][h.Key] = g.Value
    /\ \A j \in 1..Len(hints') :
         \A i \in 1..Len(hints) :
            hints[i].Timestamp = hints'[j].Timestamp =>
                /\ hints'[j].Key = hints[i].Key
                /\ hints'[j].Value = hints[i].Value
                /\ hints'[j].Node = hints[i].Node
                /\ hints'[j].Attempts - hints[i].Attempts \in {0, 1}
                /\ hints'[j].Attempts - hints[i].Attempts
                     = attemptsMade'[hints[i].Timestamp] - attemptsMade[hints[i].Timestamp]

C10_WalRoundTrip ==
    (\A g \in Callers : wpc[g] = Idle) =>
        /\ Recover(walFile, EmptyWalStore) = inner
        /\ Recover(walFile, Recover(walFile, EmptyWalStore))
             = Recover(walFile, EmptyWalStore)

\* C11: in the WAL layer a set or delete reaches the inner store only after
\* its record was appended to the log (a call between its two halves has its
\* record in the file, and the step that ends it applies exactly that
\* record); the append itself does not touch the inner store; and a failed
\* append returns the error, leaves the inner store unchanged and leaves no
\* call pending.
C11_AppendBeforeApply ==
    [][/\ \A g \in Callers :
            wpc'[g] # Idle =>
                \E i \in 1..Len(walFile') :
                    LET e == UnmarshalWALEntry(walFile'[i])
                    IN  /\ e.Operation = wpc'[g].op
                        /\ e.Key = wpc'[g].key
                        /\ e.Value = wpc'[g].value
       /\ \A g \in Callers :
            (wpc[g] # Idle /\ wpc'[g] = Idle) =>
                /\ walFile' = walFile
                /\ inner' = RecoverStep(inner,
                       WALEntry(wpc[g].op, wpc[g].key, wpc[g].value, 0))
       /\ Len(walFile') = Len(walFile) + 1 => inner' = inner
       /\ (walSequence' = walSequence + 1 /\ walFile' = walFile) =>
             /\ inner' = inner
             /\ wpc' = wpc
             /\ \E g \in Callers : wpc[g] = Idle /\ wret'[g] = "write failed"
       /\ inner' # inner =>
             \/ \E g \in Callers : wpc[g] # Idle /\ wpc'[g] = Idle
             \/ /\ \A g \in Callers : wpc[g] = Idle
                /\ inner' = Recover(walFile, EmptyWalStore)
    ]_vars

\* C11 witness: one call was logged and applied, another one failed to append
\* and left the store as it was.
C11_Witness ==
    /\ Len(walFile) = 1
    /\ walSequence = 2
    /\ inner = Recover(walFile, EmptyWalStore)
    /\ inner # EmptyWalStore
    /\ \E g \in Callers : wret[g] = "write failed" /\ wpc[g] = Idle

\* C12: compareAndSet(k, expected, new, expectedVersion) writes new and
\* succeeds with the version it stored if and only if the current value
\* equals expected (a missing key counting as "") and expectedVersion is 0
\* or the current version; otherwise it returns success = false with the
\* current value and version and changes neither the value nor the version.
C12_CasIffMatch ==
    casRet.op = "cas" =>
        LET k       == casRet.key
            current == IF casRet.before.kind = "absent" THEN Str("") ELSE casRet.before
            matches == /\ current = Str(casRet.expected)
                       /\ \/ casRet.expectedVersion = 0
                          \/ casRet.beforeVersion = casRet.expectedVersion
        IN  /\ matches =>
                /\ casRet.err = ErrNone
                /\ casRet.Success
                /\ casStore[k] = Str(casRet.new)
                /\ versionMap[k] = casRet.Version
            /\ ~matches =>
                /\ casRet.err = ErrNone
                /\ ~casRet.Success
                /\ casRet.CurrentValue = current
                /\ casRet.Version = casRet.beforeVersion
                /\ casStore[k] = casRet.before
                /\ versionMap[k] = casRet.beforeVersion

\* a fresh lock value was written to the lock key by this step
C13_GrantStep ==
    /\ casStore'[LockKey] # casStore[LockKey]
    /\ casStore'[LockKey].kind = "lock"

\* C13: acquireLock returns true only when every lock granted before has
\* expired or was released, and only by writing a fresh lock value over the
\* one it found, so that of the callers racing for one expired lock a single
\* one obtains true and the others find the value changed.
C13_LockMutualExclusion ==
    [][(casRet'.op = "acquire" /\ casRet'.Success /\ casRet' # casRet) =>
            /\ \A e \in grants : e < casNow
            /\ C13_GrantStep
    ]_vars

\* C14: once releaseLock(L) has returned without error the lock key is
\* clear, so the CompareAndSet(L, "", lockValue, 0) of an immediately
\* following acquireLock succeeds.
C14_ReleaseFreesLock ==
    (casRet.op = "release" /\ casRet.err = ErrNone) =>
        /\ casStore[LockKey].kind # "lock"
        /\ CompareAndSet(casStore, versionMap, LockKey, Str(""),
                         LockValue(casNow + 1), 0, casNow, TRUE).result.Success

\* C15: for a key last written with setWithTTL(k, v, d), d > 0, a get(k)
\* that starts after the write returned gives v up to the expiry instant and
\* NotFound after it, whether or not the sweeper has run; and right after a
\* sweeper pass no expiry earlier than the pass's start is in the index and
\* every key in the index is in the store.
C15_TtlReads ==
    /\ (ttlRet.op = "get" /\ ~ttlRet.concurrent
            /\ ttlLast[ttlRet.key].written /\ ttlLast[ttlRet.key].expiry # 0) =>
          LET w == ttlLast[ttlRet.key]
          IN  IF After(ttlRet.at, w.expiry)
              THEN ttlRet.err = ErrKeyNotFound
              ELSE ttlRet.err = ErrNone /\ ttlRet.value = w.value
    /\ ttlRet.op = "sweep" =>
          \A k \in TtlKeys :
              ttlData[k] # 0 =>
                  /\ ttlData[k] >= ttlRet.at
                  /\ StoreHas(ttlStore, k)

\* C16: through the compression layer, get(k) after set(k, v) returns
\* exactly v, for every value, threshold and codec.
C16_CompressionRoundTrip ==
    (compRet.op = "get" /\ compLast[compRet.key] # NoBytes) =>
        /\ compRet.err = ErrNone
        /\ compRet.value = compLast[compRet.key]

\* C17: the Bloom layer has no false negatives: every key set through the
\* layer, and every key the base store held when the layer was built, tests
\* positive, and a Get of such a key reaches the inner store, under any
\* interleaving of Gets and Sets; deletes clear no bit.
C17_NoFalseNegatives ==
    /\ \A k \in bloomAdded \cup bloomStartup : Contains(bitset, k)
    /\ (bloomRet.op = "get" /\ bloomRet.known) => bloomRet.positive

\* C18: once Delete(k) has returned, every Get(k) that starts afterwards
\* returns NotFound until the next Set(k, .), through the cache layer and
\* also when other Gets of k ran concurrently with the Delete.
C18_DeleteThenNotFound ==
    (cacheRet.op = "get" /\ cacheRet.after) => cacheRet.err = ErrKeyNotFound

\* C19: vector-clock resolve is commutative: resolving a against b and b
\* against a selects the same value, whatever the clocks and timestamps.
C19_ResolveCommutative ==
    resolved.op = "pair" => resolved.ab.Value = resolved.ba.Value

\* C20: resolve is associative and converges: folding it over the same three
\* versions in any grouping and order selects the same winner.
C20_ResolveConverges ==
    resolved.op = "fold" =>
        /\ resolved.left.Value = resolved.right.Value
        /\ resolved.left.Value = resolved.swapped.Value


C22_ExactlyOneCopy ==
    /\ rbLast.op = "transfer" =>
          (rbLast.localAfter # rbLast.localBefore => rbLast.peerAfter # "")
    /\ rbRet.op = "rebalance" => (rbRet.onBoth = {} /\ rbRet.onNone = {})


\* C23: the Merkle root is a function of the key set only: the same keys in
\* any order give equal roots and no diffs; different key sets (empty versus
\* non-empty included) give different roots and at least one diff in either
\* argument order.
C23_RootIsFunctionOfKeySet ==
    mkRet.op = "compare" =>
        IF Range(mkRet.keys1) = Range(mkRet.keys2)
        THEN /\ mkRet.root1 = mkRet.root2
             /\ mkRet.diffs12 = <<>>
             /\ mkRet.diffs21 = <<>>
        ELSE /\ mkRet.root1 # mkRet.root2
             /\ mkRet.diffs12 # <<>>
             /\ mkRet.diffs21 # <<>>

\* C24: in every reachable state of the cache layer the access list and the
\* lookup map hold exactly the same keys, one list element per mapped key,
\* and the cache holds at most maxSize entries.
C24_ListMatchesMap ==
    /\ {cacheElems[accessList[i]].key : i \in 1..Len(accessList)}
          = {k \in CacheKeys : cache[k] # 0}
    /\ Len(accessList) = Cardinality({k \in CacheKeys : cache[k] # 0})
    /\ Cardinality({k \in CacheKeys : cache[k] # 0}) <= maxSize

\* C25: the cache's hits, misses and evictions counters only increase.
C25_CountersOnlyGrow ==
    [][/\ stats'.Hits >= stats.Hits
       /\ stats'.Misses >= stats.Misses
       /\ stats'.Evictions >= stats.Evictions]_vars


\* C26: Increment on a missing key or on a decimal signed 64-bit integer
\* stores and returns current + delta (missing counts as 0); concurrent
\* increments lose no update, the final value being the initial value plus
\* the sum of all deltas; on a non-integer value it returns an error and
\* leaves the stored value unchanged.
C26_IncrementAddsDelta ==
    /\ (atomRet.op = "increment" /\ atomRet.err # "set failed") =>
          LET parsed == IF atomRet.before = AtomAbsent THEN [ok |-> TRUE, n |-> 0]
                        ELSE ParseInt(atomRet.before)
          IN  IF parsed.ok
              THEN /\ atomRet.err = ErrNone
                   /\ atomRet.value = parsed.n + atomRet.delta
                   /\ ParseInt(atomRet.after) = [ok |-> TRUE, n |-> atomRet.value]
              ELSE /\ atomRet.err # ErrNone
                   /\ atomRet.after = atomRet.prev
    /\ (atomHist.clean /\ atomMu = "" /\ atomHist.incs > 0 /\ atomStore # AtomAbsent) =>
          /\ ParseInt(atomStore).ok
          /\ ParseInt(atomStore).n = WrapAdd(atomHist.base, atomHist.sum)

\* C26, in int64 arithmetic: Increment on a missing key or on a decimal signed
\* 64-bit integer stores and returns current + delta wrapped around to the
\* int64 range (missing counts as 0); increments that no plain write
\* overlaps lose no update, the stored value being the initial value plus the
\* sum of all deltas, wrapped the same way; on a value that does not parse
\* Increment returns an error and leaves the stored value unchanged.
C26_IncrementAddsDeltaInt64 ==
    /\ (atomRet.op = "increment" /\ atomRet.err # "set failed") =>
          LET parsed == IF atomRet.before = AtomAbsent THEN [ok |-> TRUE, n |-> 0]
                        ELSE ParseInt(atomRet.before)
          IN  IF parsed.ok
              THEN /\ atomRet.err = ErrNone
                   /\ atomRet.value = WrapAdd(parsed.n, atomRet.delta)
                   /\ ParseInt(atomRet.after) = [ok |-> TRUE, n |-> atomRet.value]
              ELSE /\ atomRet.err # ErrNone
                   /\ atomRet.after = atomRet.prev
    /\ (atomHist.clean /\ atomMu = "" /\ atomHist.incs > 0 /\ atomStore # AtomAbsent) =>
          /\ ParseInt(atomStore).ok
          /\ ParseInt(atomStore).n = WrapAdd(atomHist.base, atomHist.sum)

\* two increments have run one after the other on the counter and both stored
C26_Witness ==
    /\ atomHist.clean /\ atomMu = "" /\ atomHist.incs = 2
    /\ atomRet.op = "increment" /\ atomRet.err = ErrNone
    /\ atomHist.sum # atomRet.delta


\* C27: ExecuteBatch applies its operations in list order and returns one
\* result per operation in the same order, each reflecting the earlier
\* operations of the batch; a failing operation neither undoes earlier ones
\* nor stops later ones; the operations of two concurrent batches never
\* interleave.  So a batch that no plain write of another client overlapped
\* returns what it returns when run alone on the store it found, and leaves
\* the store it leaves when run alone; and no two batches are inside the loop
\* at once.
C27_BatchRunsAlone ==
    /\ Len(batRet.results) = Len(batRet.ops)
    /\ \A i \in 1..Len(batRet.results) : batRet.results[i].Operation = batRet.ops[i]
    /\ batRet.clean =>
          /\ batRet.results = RunAlone(batRet.ops, batRet.start).results
          /\ batRet.end = RunAlone(batRet.ops, batRet.start).store
    /\ \A g, h \in Callers :
          (batPc[g].at = "loop" /\ batPc[h].at = "loop") => g = h

\* a batch whose first operation failed went on to write, and later reads of
\* the same batch succeeded on what it wrote
C27_Witness ==
    /\ batRet.n > 0 /\ batRet.clean
    /\ Len(batRet.ops) = MaxOps
    /\ batRet.results[1].Error # ErrNone
    /\ batRet.results[MaxOps].Error = ErrNone
    /\ batRet.end # batRet.start


\* C28: ReplicateDelete returns success to its caller for every combination of
\* peer outcomes, without waiting for any peer response (no peer had answered
\* when it returned, and what the peers answer later does not change what was
\* returned); peer failures are only logged: a warning line names a peer that
\* failed.
C28_DeleteFireAndForget ==
    /\ rdRet.op = "delete" =>
          /\ rdRet.err = ErrNone
          /\ rdRet.answered = {}
    /\ (rdPc = "collect" \/ \E n \in Peers : rdRunning[n] # "none") =>
          rdRet.op = "delete"
    /\ \A i \in 1..Len(rdLog) :
          rdLog[i].line = "warning" => rdLog[i].node \in rdRet.sent

\* every peer failed, the collector has logged it, the caller had its success
C28_Witness ==
    /\ rdPc = "done"
    /\ rdRet.op = "delete" /\ rdRet.err = ErrNone
    /\ Cardinality(rdRet.sent) = 2
    /\ Len(rdLog) = 3


\* C29: a client set whose local store write succeeded is answered 201 and its
\* value is in the local store, and a replication that fails leaves the local
\* store as it is; a client set or delete whose local store operation fails is
\* answered 500 (404 when deleting a missing key) and the replicator is never
\* invoked for it.
C29_LocalWriteDecides ==
    /\ (hResp.op = "set" /\ hResp.key # "" /\ hResp.storeErr = ErrNone) =>
          /\ hResp.status = StatusCreated
          /\ hResp.after = hResp.value
    /\ hRepl.op # "none" => hRepl.after = hRepl.before
    /\ (hResp.op # "none" /\ hResp.storeErr # ErrNone) =>
          /\ hResp.status = IF hResp.op = "delete" /\ hResp.storeErr = ErrKeyNotFound
                            THEN StatusNotFound ELSE StatusInternalServerError
          /\ hResp.id \in hFailed
    /\ hFailed \cap (hCalls \cup {g.id : g \in hSpawned}) = {}

\* a set was answered 201, its replication has failed, the value is still
\* there; an earlier request failed in the store
C29_Witness ==
    /\ hResp.op = "set" /\ hResp.status = StatusCreated
    /\ hRepl.id = hResp.id /\ hRepl.err # ErrNone
    /\ hStore = hResp.value
    /\ hFailed # {}


\* C30: for every node in the monitor's list the reported online flag equals
\* the outcome of the most recent completed health probe of that node (online
\* only when /health answered 200 within the timeout); GetActiveNodes returns
\* exactly the listed nodes whose flag is online; AddNode, RemoveNode and
\* SetNodes keep the status of every retained peer unchanged; a removed node
\* is never reported as active.
C30_FlagsFollowProbes ==
    /\ \A n \in Listed(fmNodes) :
          fmLast[n] # "none" => nodeStatus[n].Online = (fmLast[n] = "200")
    /\ GetActiveNodes = {n \in Listed(fmNodes) : nodeStatus[n].Online}
    /\ \A n \in fmOp.kept : fmOp.after[n] = fmOp.before[n]
    /\ \A n \in FmPeers \ Listed(fmNodes) : n \notin GetActiveNodes


\* C31: EnsureReadYourWrites(client, k) returns the peer of the most recent
\* RecordWrite(k, .) when the client has a session whose last activity is
\* less than 5 seconds old, and no preferred peer when the client has no
\* session, the session is not that young, or k has no recorded write;
\* CleanupOldSessions(maxAge) removes exactly the sessions older than maxAge.
C31_StickyWhileRecent ==
    /\ cmRet.op = "ensure" =>
          cmRet.preferred =
             (IF cmRet.age # NoSession /\ cmRet.age < stickyWindow
              THEN cmRet.last ELSE NoNode)
    /\ cmRet.op = "cleanup" =>
          \A c \in CmClients :
             cmRet.after[c] =
                (IF cmRet.before[c] # NoSession /\ cmRet.now - cmRet.before[c] > cmRet.maxAge
                 THEN NoSession ELSE cmRet.before[c])

\* a session exactly as old as the window got no preferred peer although the
\* key has a recorded write
C31_Witness ==
    /\ cmRet.op = "ensure" /\ cmRet.age = stickyWindow
    /\ cmRet.last # NoNode
    /\ cmRet.preferred = NoNode

\* a cleanup removed one session and kept another of exactly maxAge
C31_CleanupWitness ==
    /\ cmRet.op = "cleanup"
    /\ \E c, d \in CmClients :
          /\ cmRet.before[c] # NoSession /\ cmRet.after[c] = NoSession
          /\ cmRet.after[d] # NoSession /\ cmRet.now - cmRet.after[d] = cmRet.maxAge


\* C32: a read-only gate created with quorum size 0 is read-only after
\* UpdateNodeCount(0): IsReadOnly() is true when the quorum size and the
\* active count are both zero.
C32_ZeroQuorumReadOnly ==
    (romUpdated /\ romQuorumSize = 0 /\ activeNodes = 0) => IsReadOnly


\* C33: in the TTL layer a Get that finds its key expired removes the key and
\* the expiry as one atomic step with respect to writers: a Set or SetWithTTL
\* on the key that completes while the Get is running is never deleted by it,
\* so when both are over the written value and its expiry are still there.
C33_ExpiredGetSparesNewWrite ==
    (ttlRet.op = "get" /\ ttlRet.concurrent /\ ttlLast[ttlRet.key].written) =>
        /\ ttlStore[ttlRet.key] = ttlLast[ttlRet.key].value
        /\ ttlData[ttlRet.key] = ttlLast[ttlRet.key].expiry


\* C34: every fan-out of the replicator (set, delete, quorum read) works on a
\* copy of the peer list taken under the read lock, so a fan-out concurrent
\* with UpdateNodes uses the complete old list or the complete new list.
C34_FanOutSeesWholeList ==
    unRet.op # "none" => unRet.seen \in unInstalled

\* C35: at every moment the write quorum and the read quorum of the
\* replicator are floor(|N|/2)+1 for its current peer list N, also after
\* UpdateNodes replaced the list; the write quorum never exceeds the number
\* of peers.
C35_QuorumFollowsNodes ==
    unCopy.at = "idle" =>
        /\ unQuorum.WriteQuorum = (Len(unNodes) \div 2) + 1
        /\ unQuorum.ReadQuorum = (Len(unNodes) \div 2) + 1
        /\ unQuorum.WriteQuorum <= Len(unNodes)


\* C36: the sequence numbers of the records in the WAL file are strictly
\* increasing in file order over the whole life of the file, records appended
\* after a restart included.
C36_SequenceIncreases ==
    \A i, j \in 1..Len(walFile) :
        i < j => UnmarshalWALEntry(walFile[i]).Sequence
                    < UnmarshalWALEntry(walFile[j]).Sequence


\* C37: a retry pass of the hinted handoff that follows a write of key k never
\* changes the value of k on a peer that took that write: delivering an older
\* hint for k does not replace the newer value the peer holds.
C37_HintNeverRegresses ==
    [][(ret.op = "set" /\ ret'.op = "retry") =>
          \A p \in ret.acked : peerData'[p][ret.key] = peerData[p][ret.key]]_vars


\* C38: once every Set and Get of an interleaving of concurrent Set(k, .) and
\* Get(k) calls has returned, the value cached for k, if any, is the value the
\* inner store holds for k.
C38_CacheCoherent ==
    (\A g \in Callers : cpc[g] = CacheIdle) =>
        \A k \in CacheKeys :
            cache[k] # 0 => cacheElems[cache[k]].value = cacheBase[k]


\* C39: a rebalance that runs while clients write never loses an acknowledged
\* write: a value v2 that a client's Set stored locally over the v1 of the
\* rebalancer's snapshot is, after every step of the rebalance, still held
\* for its key locally or at the owner.
C39_RebalanceKeepsLateWrite ==
    [][\A k \in RbKeys :
          (rbPc = "loop" /\ rbStore[k] \in RbLateValues) =>
              (rbStore'[k] = rbStore[k] \/ rbPeer'[k] = rbStore[k])]_vars


\* C40: a health probe that completes after its node was removed is
\* discarded: the failover monitor does not crash, no status entry is
\* re-created for the removed node, and the status map has exactly the nodes
\* of the node list as its keys.
C40_LateProbeDiscarded ==
    /\ ~fmPanic
    /\ {n \in FmPeers : nodeStatus[n].present} = Listed(fmNodes)

====
